---- MODULE Spec2Model ----
(***************************************************************************)
(* The OTEL manager of drone-runner-aws (package otel): the process-wide   *)
(* singleton slot activeManager guarded by the mutex mu, with Start,       *)
(* Shutdown, manager.shutdown, GetMetricsBridge and GetLogHook.            *)
(*                                                                         *)
(* One action per program step between two points where another goroutine  *)
(* can observe or change shared state.  Arguments are bound when the code  *)
(* first reads them: Start reads its *Config through the pointer, field by *)
(* field, and the context is first read by manager.shutdown.               *)
(*                                                                         *)
(* Spec     is the package API called by NumThreads goroutines.            *)
(* TestSpec is the single goroutine of the package tests, which also puts  *)
(*          hand-built managers (with shutdownFuncs) in the slot and calls *)
(*          manager.shutdown on a nil receiver.                            *)
(***************************************************************************)
EXTENDS Integers, Sequences, FiniteSets, TLC

(* ------------------------------ bounds --------------------------------- *)
NumThreads == 2      \* goroutines calling the package API
MaxManagers == 2     \* manager objects ever allocated (Start or test setup)
MaxFuncs == 2        \* length of a hand-built manager's shutdownFuncs list

Threads == 1..NumThreads
TestThreads == {1}
FuncIds == 1..MaxFuncs

(* ------------------------------ values --------------------------------- *)
NoManager == 0       \* the nil *manager
NoHandle == 0        \* the nil *OTELLogHook / *MetricsBridge

\* Config: the fields Start reads.
NoConfig ==
  [Enabled |-> FALSE, Endpoint |-> "", ExportLogs |-> FALSE, ExportMetrics |-> FALSE]

Endpoints == {"", "collector:4317"}

\* The *logrus.Logger argument of Start: nil, or a logger of the caller.
LoggerArgs == {"nil", "custom"}
\* The loggers hooks are registered on: logrus' standard logger, or the argument.
Loggers == {"std", "custom"}

\* The context.Context argument of Start and Shutdown.
Contexts == {"live", "canceled"}

\* error values
NoError == [kind |-> "nil", errs |-> <<>>]
ConfigError == [kind |-> "OTEL is enabled but DRONE_OTEL_ENDPOINT is not set", errs |-> <<>>]

\* fmt.Errorf("<label>: %w", err) for the failure of one teardown step
WrapError(label, step, fn) == [label |-> label, step |-> step, fn |-> fn]

\* one invocation of a teardown step, as the component saw it
StepEntry(step, fn, ok, ctx) == [step |-> step, fn |-> fn, ok |-> ok, ctx |-> ctx]

\* every sequence over S without repetition, of length at most n
InjSeqs(S, n) ==
  {s \in UNION {[1..k -> S] : k \in 0..n} :
     \A i, j \in DOMAIN s : i # j => s[i] # s[j]}

(* ------------------------------ state ---------------------------------- *)
VARIABLES
  mu,             \* sync.Mutex mu: 0 when unlocked, else the goroutine holding it
  activeManager,  \* the singleton slot: NoManager or the id of a manager
  managers,       \* the heap of reachable manager objects: id -> fields
  nextId,         \* next manager id to allocate
  hooks,          \* per logger, the hooks registered on it, in order
  errorHandler,   \* whether otelglobal.SetErrorHandler has been called
  life,           \* per manager ever allocated: what has happened to it
  tdLog,          \* the steps invoked by the manager.shutdown call in progress
  pc,             \* per goroutine, its position in the code
  local,          \* per goroutine, the arguments and locals of its call
  lastOp,         \* the last completed operation that wrote the slot, with the
                  \* context a completed Shutdown was called with
  otelLogger,     \* OTELLogHook.otelLogger of one hook: "nil" or "sdk"
  loggerProvider, \* OTELLogHook.loggerProvider: "nil", "running" or "shutdown"
  context,        \* OTELLogHook.context of that hook: the label map
  contextMu,      \* OTELLogHook.contextMu: the writer (0: none) and the readers
  serial,         \* the label map after the UpdateContext calls so far, applied
                  \* one after the other in the order they took the write lock
  hpc,            \* per goroutine, its position in Fire or UpdateContext
  hlocal,         \* per goroutine, the arguments and locals of that call
  logged,         \* the entries that logrus and the tests pass to Fire in this run
  config,         \* the Config a test passes to the builders and to NewResource
  version,        \* the version argument of NewResource
  built           \* what createLogExporter, createMetricReader and NewResource
                  \* have returned for them so far

shared == <<mu, activeManager, managers, nextId, hooks, errorHandler, life, tdLog>>
managerVars == <<mu, activeManager, managers, nextId, hooks, errorHandler, life,
                 tdLog, pc, local, lastOp>>
emitterVars == <<otelLogger, loggerProvider, context, contextMu, serial, hpc, hlocal,
                 logged>>
builderVars == <<config, version, built>>
vars == <<managerVars, emitterVars, builderVars>>

NoLocal ==
  [caller |-> "none", cfg |-> NoConfig, logger |-> "nil", ctx |-> "live",
   tdMgr |-> NoManager, errs |-> <<>>, idx |-> 0, err |-> NoError,
   mgr |-> NoManager, snap |-> <<>>, resErr |-> FALSE, logErr |-> FALSE,
   readerErr |-> FALSE, val |-> NoHandle]

NoOp == [op |-> "none", mgr |-> NoManager, failed |-> FALSE, ctx |-> "live"]

\* what has happened to a manager: who built it, whether it was put in the
\* slot, how often each of its components was shut down and how many
\* manager.shutdown calls on it have completed
NewLife(origin) ==
  [origin |-> origin, installed |-> FALSE, closes |-> 0, bridgeDowns |-> 0,
   funcRuns |-> 0, teardowns |-> 0]

\* the heap once the local reference m is dropped: the object goes unless the
\* slot still refers to it
Collected(heap, m, slot) ==
  IF m = slot THEN heap ELSE [x \in DOMAIN heap \ {m} |-> heap[x]]

(* --------------------------- the log hook ------------------------------ *)
\* MaxKeys label keys ("accountId", "runnerName", ...) and MaxValues values
MaxKeys == 2
MaxValues == 2
Keys == 1..MaxKeys
Values == 1..MaxValues

\* map[string]string over these keys and values
LabelMaps == UNION {[D -> Values] : D \in SUBSET Keys}
EmptyMap == [k \in {} |-> 0]

\* h.context[key] = value
MapSet(mp, key, value) ==
  [k \in DOMAIN mp \cup {key} |-> IF k = key THEN value ELSE mp[k]]

\* the map after "for key, value := range m { old[key] = value }"
Override(old, m) ==
  [k \in DOMAIN old \cup DOMAIN m |-> IF k \in DOMAIN m THEN m[k] ELSE old[k]]

\* the otelLogger field: nil in a hook built as &OTELLogHook{...}, the
\* provider's logger in a hook built by newOTELLogHookFromExporter
LoggerFields == {"nil", "sdk"}

\* the *logrus.Entry argument of Fire
Entries == {"nil", "entry"}
\* entry.Context
EntryContexts == {"nil", "set"}

\* the value recover() returns: none, or the runtime error of a nil dereference
NoPanic == "none"
NilDereference == "invalid memory address or nil pointer dereference"

\* fmt.Errorf("otel log hook panic: %v", r)
PanicError(r) == [kind |-> "otel log hook panic", errs |-> <<r>>]

\* logrus.Level: PanicLevel, FatalLevel, ..., TraceLevel, and the values of
\* the type that are no level, up to MaxLevel
PanicLevel == 0
FatalLevel == 1
ErrorLevel == 2
WarnLevel == 3
InfoLevel == 4
DebugLevel == 5
TraceLevel == 6
MaxLevel == 7
LevelValues == 0..MaxLevel

\* otellog.Severity
SeverityTrace == 1
SeverityDebug == 5
SeverityInfo == 9
SeverityWarn == 13
SeverityError == 17
SeverityFatal == 21
SeverityFatal4 == 24

\* a severity mapper that gives panic the severity of fatal
MapLogrusLevelPanicAsFatal(level) ==
  CASE level = TraceLevel -> SeverityTrace
    [] level = DebugLevel -> SeverityDebug
    [] level = InfoLevel -> SeverityInfo
    [] level = WarnLevel -> SeverityWarn
    [] level = ErrorLevel -> SeverityError
    [] level = FatalLevel -> SeverityFatal
    [] level = PanicLevel -> SeverityFatal
    [] OTHER -> SeverityInfo

\* switch level { case logrus.TraceLevel: return otellog.SeverityTrace ... }
mapLogrusLevel(level) ==
  CASE level = TraceLevel -> SeverityTrace
    [] level = DebugLevel -> SeverityDebug
    [] level = InfoLevel -> SeverityInfo
    [] level = WarnLevel -> SeverityWarn
    [] level = ErrorLevel -> SeverityError
    [] level = FatalLevel -> SeverityFatal
    [] level = PanicLevel -> SeverityFatal4
    [] OTHER -> SeverityInfo

\* entry.Message
Messages == {"", "something failed"}

\* entry.Data: a field of the caller and the field under logrus.ErrorKey, each
\* holding a plain value or an error
ErrorKey == "error"
DataKeys == {"field", ErrorKey}
ValueKinds == {"text", "error"}
DataMaps == UNION {[D -> ValueKinds] : D \in SUBSET DataKeys}
NoData == [k \in {} |-> "text"]

\* what Fire reads of a non-nil entry: Message, Level, Data, HasCaller()
Contents ==
  [message : Messages, level : LevelValues, data : DataMaps, caller : BOOLEAN]
PlainContent ==
  [message |-> "something failed", level |-> InfoLevel, data |-> NoData,
   caller |-> FALSE]

\* otellog.KeyValue: where Fire took it from, its key, and for a label the key
\* and value of the label map
Attr(src, name, label, val) ==
  [src |-> src, name |-> name, label |-> label, val |-> val]

\* the orders in which a range over a map with these keys may visit them
Orders(S) ==
  {o \in [1..Cardinality(S) -> S] : \A i, j \in DOMAIN o : i # j => o[i] # o[j]}

\* for k, v := range entry.Data { attrs = append(attrs, otellog.String(k, fmt.Sprintf("%v", v))) }
FieldAttrs(order) == [i \in DOMAIN order |-> Attr("field", order[i], 0, 0)]

\* for k, v := range h.context { attrs = append(attrs, otellog.String(k, v)) }
LabelAttrs(labels, order) ==
  [i \in DOMAIN order |-> Attr("label", "", order[i], labels[order[i]])]

\* if entry.HasCaller() { attrs = append(attrs, code.filepath, code.function, code.lineno) }
CallerAttrs(caller) ==
  IF caller
    THEN <<Attr("caller", "code.filepath", 0, 0), Attr("caller", "code.function", 0, 0),
           Attr("caller", "code.lineno", 0, 0)>>
    ELSE <<>>

\* if errValue, ok := entry.Data[logrus.ErrorKey]; ok {
\*   if err, isErr := errValue.(error); isErr { attrs = append(attrs, exception.message) } }
ErrorAttrs(data) ==
  IF ErrorKey \in DOMAIN data /\ data[ErrorKey] = "error"
    THEN <<Attr("exception", "exception.message", 0, 0)>>
    ELSE <<>>

\* an attribute list that leaves the exception message out
RecordAttrsNoException(c, labels, fo, lo) ==
  FieldAttrs(fo) \o LabelAttrs(labels, lo) \o CallerAttrs(c.caller)

\* the attribute list of Fire, for the orders fo and lo of its two ranges
RecordAttrs(c, labels, fo, lo) ==
  FieldAttrs(fo) \o LabelAttrs(labels, lo) \o CallerAttrs(c.caller)
    \o ErrorAttrs(c.data)

\* the records Fire may hand to Emit for an entry and the labels it has read
Records(c, labels) ==
  {[body |-> c.message, severity |-> mapLogrusLevel(c.level),
    attrs |-> RecordAttrs(c, labels, fo, lo)] :
     fo \in Orders(DOMAIN c.data), lo \in Orders(DOMAIN labels)}

\* var record otellog.Record
NoRecord == [body |-> "", severity |-> 0, attrs |-> <<>>]

\* sync.RWMutex
Unlocked == [writer |-> 0, readers |-> {}]

NoFire ==
  [op |-> "none", entry |-> "entry", ctx |-> "none", ctxMap |-> EmptyMap,
   old |-> EmptyMap, done |-> {}, attrs |-> EmptyMap, panic |-> NoPanic,
   emitted |-> 0, err |-> NoError, content |-> PlainContent, record |-> NoRecord,
   hint |-> 0, entryCtx |-> "nil", emitCtx |-> "none"]

\* a hook with this logger field, an empty label map and nobody calling it,
\* in a run where these entries are logged
EmitterInit(lg, cs) ==
  /\ logged = cs
  /\ otelLogger = lg
  /\ loggerProvider = IF lg = "nil" THEN "nil" ELSE "running"
  /\ context = EmptyMap
  /\ contextMu = Unlocked
  /\ serial = EmptyMap
  /\ hpc = [t \in Threads |-> "idle"]
  /\ hlocal = [t \in Threads |-> NoFire]

(* ------------------------------ initial state -------------------------- *)
ManagerInit ==
  /\ mu = 0
  /\ activeManager = NoManager
  /\ managers = <<>>
  /\ nextId = 1
  /\ hooks = [l \in Loggers |-> <<>>]
  /\ errorHandler = FALSE
  /\ life = <<>>
  /\ tdLog = <<>>
  /\ pc = [t \in Threads |-> "idle"]
  /\ local = [t \in Threads |-> NoLocal]
  /\ lastOp = NoOp

(* --------------- the exporter builders and NewResource ----------------- *)
\* const protocolHTTP = "http"
protocolHTTP == "http"

\* Config.Protocol: unset, the two documented values and two others
Protocols == {"", "grpc", protocolHTTP, "HTTP", "tcp"}
ServiceNames == {"", "drone-runner-aws"}
Versions == {"", "1.0.0"}
Environments == {"", "production"}
HeaderMaps == {"none", "auth"}

\* Config: the fields the builders and NewResource can see
BuilderConfigs ==
  [Protocol : Protocols, Endpoint : {"collector:4317"}, Insecure : BOOLEAN,
   Headers : HeaderMaps, ServiceName : ServiceNames, ServiceVersion : Versions,
   Environment : Environments]
NoBuilderConfig ==
  [Protocol |-> "", Endpoint |-> "", Insecure |-> FALSE, Headers |-> "none",
   ServiceName |-> "", ServiceVersion |-> "", Environment |-> ""]

\* opts := {WithEndpoint(config.Endpoint)}; if config.Insecure { WithInsecure() };
\* if len(config.Headers) > 0 { WithHeaders(config.Headers) }
Options(cfg) ==
  {<<"endpoint", cfg.Endpoint>>}
    \cup (IF cfg.Insecure THEN {<<"insecure", "">>} ELSE {})
    \cup (IF cfg.Headers # "none" THEN {<<"headers", cfg.Headers>>} ELSE {})

NotBuilt == [kind |-> "none"]

\* what a builder returns: the exporter or reader over a transport with its
\* options and the shutdown function of the exporter, or the error that names
\* the transport whose constructor failed
Component(kind, transport, cfg) ==
  [kind |-> kind, transport |-> transport, opts |-> Options(cfg),
   shutdown |-> TRUE, err |-> "nil"]
BuildError(msg, transport) ==
  [kind |-> "error", transport |-> transport, opts |-> {}, shutdown |-> FALSE,
   err |-> msg]

\* a builder that knows "grpc" and "http" and rejects everything else
CreateLogExporterStrict(cfg, ok) ==
  IF cfg.Protocol = protocolHTTP
    THEN IF ok THEN Component("exporter", "http", cfg)
         ELSE BuildError("failed to create OTLP HTTP log exporter", "http")
  ELSE IF cfg.Protocol = "grpc"
    THEN IF ok THEN Component("exporter", "grpc", cfg)
         ELSE BuildError("failed to create OTLP gRPC log exporter", "grpc")
  ELSE BuildError("unsupported protocol", "none")

\* switch config.Protocol { case protocolHTTP: otlploghttp.New(...)
\*                          default: otlploggrpc.New(...) }
\* ok: whether the constructor of the library succeeds
createLogExporter(cfg, ok) ==
  IF cfg.Protocol = protocolHTTP
    THEN IF ok THEN Component("exporter", "http", cfg)
         ELSE BuildError("failed to create OTLP HTTP log exporter", "http")
    ELSE IF ok THEN Component("exporter", "grpc", cfg)
         ELSE BuildError("failed to create OTLP gRPC log exporter", "grpc")

\* switch config.Protocol { case protocolHTTP: otlpmetrichttp.New(...)
\*                          default: otlpmetricgrpc.New(...) }
\* followed by sdkmetric.NewPeriodicReader(exporter, ...)
createMetricReader(cfg, ok) ==
  IF cfg.Protocol = protocolHTTP
    THEN IF ok THEN Component("reader", "http", cfg)
         ELSE BuildError("failed to create OTLP HTTP metric exporter", "http")
    ELSE IF ok THEN Component("reader", "grpc", cfg)
         ELSE BuildError("failed to create OTLP gRPC metric exporter", "grpc")

\* attribute.KeyValue
KeyValue(k, v) == [key |-> k, value |-> v]

\* NewResource that takes the service version from the Config
NewResourceConfigVersion(cfg, ver, ok) ==
  [kind |-> "resource",
   attrs |-> <<KeyValue("service.name", cfg.ServiceName)>>
              \o (IF cfg.ServiceVersion # ""
                    THEN <<KeyValue("service.version", cfg.ServiceVersion)>> ELSE <<>>)
              \o (IF cfg.Environment # ""
                    THEN <<KeyValue("deployment.environment", cfg.Environment)>> ELSE <<>>),
   detectors |-> {"process.runtime", "os", "host"},
   err |-> IF ok THEN "nil" ELSE "resource"]

\* attrs := {ServiceName(config.ServiceName)}; if version != "" { ServiceVersion(version) };
\* if config.Environment != "" { deployment.environment }; resource.New(ctx,
\* WithAttributes(attrs...), WithProcessRuntimeDescription(), WithOS(), WithHost())
\* ok: whether resource.New reports no error
NewResource(cfg, ver, ok) ==
  [kind |-> "resource",
   attrs |-> <<KeyValue("service.name", cfg.ServiceName)>>
              \o (IF ver # "" THEN <<KeyValue("service.version", ver)>> ELSE <<>>)
              \o (IF cfg.Environment # ""
                    THEN <<KeyValue("deployment.environment", cfg.Environment)>> ELSE <<>>),
   detectors |-> {"process.runtime", "os", "host"},
   err |-> IF ok THEN "nil" ELSE "resource"]

NothingBuilt == [exporter |-> NotBuilt, reader |-> NotBuilt, resource |-> NotBuilt]

\* no test of the builders is running
BuilderIdle ==
  /\ config = NoBuilderConfig
  /\ version = ""
  /\ built = NothingBuilt

\* a test calls createLogExporter(ctx, &config)
CreateLogExporterCall ==
  /\ built.exporter = NotBuilt
  /\ \E ok \in BOOLEAN : built' = [built EXCEPT !.exporter = createLogExporter(config, ok)]
  /\ UNCHANGED <<config, version, managerVars, emitterVars>>

\* a test calls createMetricReader(ctx, &config)
CreateMetricReaderCall ==
  /\ built.reader = NotBuilt
  /\ \E ok \in BOOLEAN : built' = [built EXCEPT !.reader = createMetricReader(config, ok)]
  /\ UNCHANGED <<config, version, managerVars, emitterVars>>

\* a test calls NewResource(ctx, config, version)
NewResourceCall ==
  /\ built.resource = NotBuilt
  /\ \E ok \in BOOLEAN : built' = [built EXCEPT !.resource = NewResource(config, version, ok)]
  /\ UNCHANGED <<config, version, managerVars, emitterVars>>

Init == ManagerInit /\ EmitterInit("sdk", {PlainContent}) /\ BuilderIdle

(* ----------------------- manager.shutdown ------------------------------ *)
\* manager.shutdown that gives up at once when its context is already done
TdEntryChecksContext(t) ==
  /\ pc[t] = "td_entry"
  /\ IF local[t].tdMgr = NoManager
       THEN /\ local' = [local EXCEPT ![t].err = NoError]
            /\ pc' = [pc EXCEPT ![t] = "td_ret"]
       ELSE IF local[t].ctx = "canceled"
         THEN /\ local' = [local EXCEPT ![t].err = [kind |-> "context canceled", errs |-> <<>>]]
              /\ pc' = [pc EXCEPT ![t] = "td_ret"]
         ELSE /\ local' = [local EXCEPT ![t].errs = <<>>]
              /\ pc' = [pc EXCEPT ![t] = "td_log"]
  /\ tdLog' = <<>>
  /\ UNCHANGED <<mu, activeManager, managers, nextId, hooks, errorHandler, life, lastOp>>
  /\ UNCHANGED <<emitterVars, builderVars>>

\* if m == nil { return nil }; var errs []error
TdEntry(t) ==
  /\ pc[t] = "td_entry"
  /\ IF local[t].tdMgr = NoManager
       THEN /\ local' = [local EXCEPT ![t].err = NoError]
            /\ pc' = [pc EXCEPT ![t] = "td_ret"]
       ELSE /\ local' = [local EXCEPT ![t].errs = <<>>]
            /\ pc' = [pc EXCEPT ![t] = "td_log"]
  /\ tdLog' = <<>>
  /\ UNCHANGED <<mu, activeManager, managers, nextId, hooks, errorHandler, life, lastOp>>
  /\ UNCHANGED <<emitterVars, builderVars>>

\* errs after one step that returned ok or failed
Collect(errs, ok, e) == IF ok THEN errs ELSE Append(errs, e)

\* manager.shutdown that forgets to close the log hook
TdLogHookSkipped(t) ==
  /\ pc[t] = "td_log"
  /\ pc' = [pc EXCEPT ![t] = "td_metrics"]
  /\ UNCHANGED <<shared, local, lastOp>>
  /\ UNCHANGED <<emitterVars, builderVars>>

\* manager.shutdown that also takes the closed hook off its logger
TdLogHookUnregisters(t) ==
  /\ pc[t] = "td_log"
  /\ LET m == local[t].tdMgr IN
     IF managers[m].logHook # NoHandle
       THEN \E ok \in BOOLEAN :
              /\ tdLog' = Append(tdLog, StepEntry("log", 0, ok, "background"))
              /\ life' = [life EXCEPT ![m].closes = @ + 1]
              /\ hooks' = [l \in Loggers |->
                             SelectSeq(hooks[l], LAMBDA h : h # managers[m].logHook)]
              /\ local' = [local EXCEPT ![t].errs =
                   Collect(@, ok, WrapError("log hook shutdown", "log", 0))]
       ELSE UNCHANGED <<tdLog, life, local, hooks>>
  /\ pc' = [pc EXCEPT ![t] = "td_metrics"]
  /\ UNCHANGED <<mu, activeManager, managers, nextId, errorHandler, lastOp>>
  /\ UNCHANGED <<emitterVars, builderVars>>

\* 1. if m.logHook != nil { m.logHook.Close() }
\* Close takes no context: it builds its own from context.Background().
TdLogHook(t) ==
  /\ pc[t] = "td_log"
  /\ LET m == local[t].tdMgr IN
     IF managers[m].logHook # NoHandle
       THEN \E ok \in BOOLEAN :
              /\ tdLog' = Append(tdLog, StepEntry("log", 0, ok, "background"))
              /\ life' = [life EXCEPT ![m].closes = @ + 1]
              /\ local' = [local EXCEPT ![t].errs =
                   Collect(@, ok, WrapError("log hook shutdown", "log", 0))]
       ELSE UNCHANGED <<tdLog, life, local>>
  /\ pc' = [pc EXCEPT ![t] = "td_metrics"]
  /\ UNCHANGED <<mu, activeManager, managers, nextId, hooks, errorHandler, lastOp>>
  /\ UNCHANGED <<emitterVars, builderVars>>

\* 2. if m.metricsBridge != nil { m.metricsBridge.Shutdown(ctx) }
TdMetricsBridge(t) ==
  /\ pc[t] = "td_metrics"
  /\ LET m == local[t].tdMgr IN
     IF managers[m].metricsBridge # NoHandle
       THEN \E ok \in BOOLEAN :
              /\ tdLog' = Append(tdLog, StepEntry("metrics", 0, ok, local[t].ctx))
              /\ life' = [life EXCEPT ![m].bridgeDowns = @ + 1]
              /\ local' = [local EXCEPT ![t].errs =
                   Collect(@, ok, WrapError("metrics bridge shutdown", "metrics", 0)),
                                         ![t].idx = 1]
       ELSE /\ local' = [local EXCEPT ![t].idx = 1]
            /\ UNCHANGED <<tdLog, life>>
  /\ pc' = [pc EXCEPT ![t] = "td_funcs"]
  /\ UNCHANGED <<mu, activeManager, managers, nextId, hooks, errorHandler, lastOp>>
  /\ UNCHANGED <<emitterVars, builderVars>>

\* a loop that runs the callbacks last to first
FuncAtReversed(fns, i) == fns[Len(fns) + 1 - i]

\* the callback the range loop runs in its i-th iteration
FuncAt(fns, i) == fns[i]

\* 3. for _, fn := range m.shutdownFuncs { fn(ctx) }: one iteration
TdShutdownFunc(t) ==
  /\ pc[t] = "td_funcs"
  /\ LET m == local[t].tdMgr
         fns == managers[m].shutdownFuncs
         i == local[t].idx
     IN /\ i <= Len(fns)
        /\ \E ok \in BOOLEAN :
             /\ tdLog' = Append(tdLog, StepEntry("aux", FuncAt(fns, i), ok, local[t].ctx))
             /\ life' = [life EXCEPT ![m].funcRuns = @ + 1]
             /\ local' = [local EXCEPT ![t].errs =
                  Collect(@, ok, WrapError("exporter shutdown", "aux", FuncAt(fns, i))),
                                        ![t].idx = i + 1]
  /\ UNCHANGED <<mu, activeManager, managers, nextId, hooks, errorHandler, pc, lastOp>>
  /\ UNCHANGED <<emitterVars, builderVars>>

\* a result that reports only the first failure
ShutdownResultFirst(errs) ==
  IF Len(errs) > 0 THEN [kind |-> "OTEL shutdown errors", errs |-> <<errs[1]>>]
  ELSE NoError

\* if len(errs) > 0 { return fmt.Errorf("OTEL shutdown errors: %v", errs) }; return nil
ShutdownResult(errs) ==
  IF Len(errs) > 0 THEN [kind |-> "OTEL shutdown errors", errs |-> errs]
  ELSE NoError

\* manager.shutdown that returns as soon as a step has failed
TdResultEarly(t) ==
  /\ pc[t] = "td_funcs"
  /\ \/ local[t].idx > Len(managers[local[t].tdMgr].shutdownFuncs)
     \/ Len(local[t].errs) > 0
  /\ local' = [local EXCEPT ![t].err = ShutdownResult(local[t].errs)]
  /\ life' = [life EXCEPT ![local[t].tdMgr].teardowns = @ + 1]
  /\ pc' = [pc EXCEPT ![t] = "td_ret"]
  /\ UNCHANGED <<mu, activeManager, managers, nextId, hooks, errorHandler, tdLog, lastOp>>
  /\ UNCHANGED <<emitterVars, builderVars>>

\* the loop is over: build the result
TdResult(t) ==
  /\ pc[t] = "td_funcs"
  /\ local[t].idx > Len(managers[local[t].tdMgr].shutdownFuncs)
  /\ local' = [local EXCEPT ![t].err = ShutdownResult(local[t].errs)]
  /\ life' = [life EXCEPT ![local[t].tdMgr].teardowns = @ + 1]
  /\ pc' = [pc EXCEPT ![t] = "td_ret"]
  /\ UNCHANGED <<mu, activeManager, managers, nextId, hooks, errorHandler, tdLog, lastOp>>
  /\ UNCHANGED <<emitterVars, builderVars>>

\* manager.shutdown returns to its caller
TdReturn(t) ==
  /\ pc[t] = "td_ret"
  /\ pc' = [pc EXCEPT ![t] =
       CASE local[t].caller = "Shutdown" -> "sd_clear"
         [] local[t].caller = "Start" -> "start_clear"
         [] OTHER -> "direct_ret"]
  /\ UNCHANGED <<shared, local, lastOp>>
  /\ UNCHANGED <<emitterVars, builderVars>>

(* ----------------------------- Shutdown -------------------------------- *)
\* a goroutine calls Shutdown(ctx)
ShutdownCall(t) ==
  /\ pc[t] = "idle"
  /\ local' = [local EXCEPT ![t] = [NoLocal EXCEPT !.caller = "Shutdown"]]
  /\ pc' = [pc EXCEPT ![t] = "sd_lock"]
  /\ UNCHANGED <<shared, lastOp>>
  /\ UNCHANGED <<emitterVars, builderVars>>

\* mu.Lock()
ShutdownLock(t) ==
  /\ pc[t] = "sd_lock"
  /\ mu = 0
  /\ mu' = t
  /\ local' = [local EXCEPT ![t].snap = life]
  /\ pc' = [pc EXCEPT ![t] = "sd_check"]
  /\ UNCHANGED <<activeManager, managers, nextId, hooks, errorHandler, life, tdLog, lastOp>>
  /\ UNCHANGED <<emitterVars, builderVars>>

\* Shutdown that reports an error when nothing was started
ShutdownCheckStrict(t) ==
  /\ pc[t] = "sd_check"
  /\ IF activeManager = NoManager
       THEN /\ local' = [local EXCEPT ![t].err = [kind |-> "OTEL is not started", errs |-> <<>>],
                                      ![t].tdMgr = NoManager]
            /\ pc' = [pc EXCEPT ![t] = "sd_unlock"]
       ELSE /\ \E c \in Contexts :
                 local' = [local EXCEPT ![t].tdMgr = activeManager, ![t].ctx = c]
            /\ pc' = [pc EXCEPT ![t] = "td_entry"]
  /\ UNCHANGED <<shared, lastOp>>
  /\ UNCHANGED <<emitterVars, builderVars>>

\* Shutdown that drops the manager at once when its context is already done
ShutdownCheckSkipsCanceled(t) ==
  /\ pc[t] = "sd_check"
  /\ IF activeManager = NoManager
       THEN /\ local' = [local EXCEPT ![t].err = NoError, ![t].tdMgr = NoManager]
            /\ pc' = [pc EXCEPT ![t] = "sd_unlock"]
       ELSE \E c \in Contexts :
              /\ local' = [local EXCEPT ![t].tdMgr = activeManager, ![t].ctx = c]
              /\ pc' = [pc EXCEPT ![t] = IF c = "canceled" THEN "sd_clear" ELSE "td_entry"]
  /\ UNCHANGED <<shared, lastOp>>
  /\ UNCHANGED <<emitterVars, builderVars>>

\* if activeManager == nil { return nil }; err := activeManager.shutdown(ctx)
ShutdownCheck(t) ==
  /\ pc[t] = "sd_check"
  /\ IF activeManager = NoManager
       THEN /\ local' = [local EXCEPT ![t].err = NoError, ![t].tdMgr = NoManager]
            /\ pc' = [pc EXCEPT ![t] = "sd_unlock"]
       ELSE /\ \E c \in Contexts :
                 local' = [local EXCEPT ![t].tdMgr = activeManager, ![t].ctx = c]
            /\ pc' = [pc EXCEPT ![t] = "td_entry"]
  /\ UNCHANGED <<shared, lastOp>>
  /\ UNCHANGED <<emitterVars, builderVars>>

\* Shutdown that keeps the manager in the slot when its teardown failed
ShutdownClearOnSuccess(t) ==
  /\ pc[t] = "sd_clear"
  /\ activeManager' = IF local[t].err = NoError THEN NoManager ELSE activeManager
  /\ pc' = [pc EXCEPT ![t] = "sd_unlock"]
  /\ UNCHANGED <<mu, managers, nextId, hooks, errorHandler, life, tdLog, local, lastOp>>
  /\ UNCHANGED <<emitterVars, builderVars>>

\* Shutdown that never clears the slot
ShutdownClearNever(t) ==
  /\ pc[t] = "sd_clear"
  /\ pc' = [pc EXCEPT ![t] = "sd_unlock"]
  /\ UNCHANGED <<shared, local, lastOp>>
  /\ UNCHANGED <<emitterVars, builderVars>>

\* activeManager = nil
ShutdownClear(t) ==
  /\ pc[t] = "sd_clear"
  /\ activeManager' = NoManager
  /\ pc' = [pc EXCEPT ![t] = "sd_unlock"]
  /\ UNCHANGED <<mu, managers, nextId, hooks, errorHandler, life, tdLog, local, lastOp>>
  /\ UNCHANGED <<emitterVars, builderVars>>

\* Shutdown that returns without unlocking the mutex
ShutdownReturnKeepsLock(t) ==
  /\ pc[t] = "sd_unlock"
  /\ lastOp' = [op |-> "Shutdown", mgr |-> local[t].tdMgr,
                failed |-> local[t].err # NoError, ctx |-> local[t].ctx]
  /\ managers' = Collected(managers, local[t].tdMgr, activeManager)
  /\ tdLog' = <<>>
  /\ local' = [local EXCEPT ![t] = NoLocal]
  /\ pc' = [pc EXCEPT ![t] = "idle"]
  /\ UNCHANGED <<mu, activeManager, nextId, hooks, errorHandler, life>>
  /\ UNCHANGED <<emitterVars, builderVars>>

\* return err, then the deferred mu.Unlock()
ShutdownReturn(t) ==
  /\ pc[t] = "sd_unlock"
  /\ mu' = 0
  /\ lastOp' = [op |-> "Shutdown", mgr |-> local[t].tdMgr,
                failed |-> local[t].err # NoError, ctx |-> local[t].ctx]
  /\ managers' = Collected(managers, local[t].tdMgr, activeManager)
  /\ tdLog' = <<>>
  /\ local' = [local EXCEPT ![t] = NoLocal]
  /\ pc' = [pc EXCEPT ![t] = "idle"]
  /\ UNCHANGED <<activeManager, nextId, hooks, errorHandler, life>>
  /\ UNCHANGED <<emitterVars, builderVars>>

(* ------------------------------- Start --------------------------------- *)
\* a call of Start with this config gets past both early returns
Proceeds(enabled, endpoint) == enabled /\ endpoint # ""

\* goroutines inside Start that will allocate a manager and have not yet
Allocating == {t \in Threads : local[t].caller = "Start" /\ local[t].mgr = NoManager
                               /\ pc[t] # "start_ret"}

\* manager objects may still be allocated within the bound
Budget == nextId + Cardinality(Allocating) <= MaxManagers

\* Start that falls back to a default endpoint when none is configured
StartEnterDefaultsEndpoint(t) ==
  /\ pc[t] = "idle"
  /\ \E enabled \in BOOLEAN, endpoint \in Endpoints :
       LET args == [NoLocal EXCEPT !.caller = "Start", !.cfg.Enabled = enabled,
                                   !.cfg.Endpoint = endpoint]
       IN IF ~enabled
            THEN /\ local' = [local EXCEPT ![t] = [args EXCEPT !.err = NoError]]
                 /\ pc' = [pc EXCEPT ![t] = "start_ret"]
            ELSE /\ Budget
                 /\ local' = [local EXCEPT ![t] = args]
                 /\ pc' = [pc EXCEPT ![t] = "start_lock"]
  /\ UNCHANGED <<shared, lastOp>>
  /\ UNCHANGED <<emitterVars, builderVars>>

\* Start that drops the active manager when called with Enabled=false
StartEnterDisabledClears(t) ==
  /\ pc[t] = "idle"
  /\ \E enabled \in BOOLEAN, endpoint \in Endpoints :
       LET args == [NoLocal EXCEPT !.caller = "Start", !.cfg.Enabled = enabled,
                                   !.cfg.Endpoint = endpoint]
       IN IF ~enabled
            THEN /\ local' = [local EXCEPT ![t] = [args EXCEPT !.err = NoError]]
                 /\ pc' = [pc EXCEPT ![t] = "start_ret"]
                 /\ activeManager' = NoManager
            ELSE IF endpoint = ""
              THEN /\ local' = [local EXCEPT ![t] = [args EXCEPT !.err = ConfigError]]
                   /\ pc' = [pc EXCEPT ![t] = "start_ret"]
                   /\ UNCHANGED activeManager
              ELSE /\ Budget
                   /\ local' = [local EXCEPT ![t] = args]
                   /\ pc' = [pc EXCEPT ![t] = "start_lock"]
                   /\ UNCHANGED activeManager
  /\ UNCHANGED <<mu, managers, nextId, hooks, errorHandler, life, tdLog, lastOp>>
  /\ UNCHANGED <<emitterVars, builderVars>>

\* Start(ctx, config, version, logger):
\*   if !config.Enabled { return nil }
\*   if config.Endpoint == "" { return fmt.Errorf(...) }
StartEnter(t) ==
  /\ pc[t] = "idle"
  /\ \E enabled \in BOOLEAN, endpoint \in Endpoints :
       LET args == [NoLocal EXCEPT !.caller = "Start", !.cfg.Enabled = enabled,
                                   !.cfg.Endpoint = endpoint]
       IN IF ~enabled
            THEN /\ local' = [local EXCEPT ![t] = [args EXCEPT !.err = NoError]]
                 /\ pc' = [pc EXCEPT ![t] = "start_ret"]
            ELSE IF endpoint = ""
              THEN /\ local' = [local EXCEPT ![t] = [args EXCEPT !.err = ConfigError]]
                   /\ pc' = [pc EXCEPT ![t] = "start_ret"]
              ELSE /\ Budget
                   /\ local' = [local EXCEPT ![t] = args]
                   /\ pc' = [pc EXCEPT ![t] = "start_lock"]
  /\ UNCHANGED <<shared, lastOp>>
  /\ UNCHANGED <<emitterVars, builderVars>>

\* a Start that returns early only when the mutex is free
StartEarlyReturnWaits(t) ==
  /\ pc[t] = "start_ret"
  /\ mu = 0
  /\ local' = [local EXCEPT ![t] = NoLocal]
  /\ pc' = [pc EXCEPT ![t] = "idle"]
  /\ UNCHANGED <<shared, lastOp>>
  /\ UNCHANGED <<emitterVars, builderVars>>

\* the caller has the result of a Start that returned before mu.Lock()
StartEarlyReturn(t) ==
  /\ pc[t] = "start_ret"
  /\ local' = [local EXCEPT ![t] = NoLocal]
  /\ pc' = [pc EXCEPT ![t] = "idle"]
  /\ UNCHANGED <<shared, lastOp>>
  /\ UNCHANGED <<emitterVars, builderVars>>

\* mu.Lock()
StartLock(t) ==
  /\ pc[t] = "start_lock"
  /\ mu = 0
  /\ mu' = t
  /\ local' = [local EXCEPT ![t].snap = life]
  /\ pc' = [pc EXCEPT ![t] = "start_check"]
  /\ UNCHANGED <<activeManager, managers, nextId, hooks, errorHandler, life, tdLog, lastOp>>
  /\ UNCHANGED <<emitterVars, builderVars>>

\* Start that replaces the active manager without shutting it down
StartCheckPrevNoTeardown(t) ==
  /\ pc[t] = "start_check"
  /\ pc' = [pc EXCEPT ![t] = "start_init"]
  /\ UNCHANGED <<shared, local, lastOp>>
  /\ UNCHANGED <<emitterVars, builderVars>>

\* if activeManager != nil { err := activeManager.shutdown(ctx) ... }
StartCheckPrev(t) ==
  /\ pc[t] = "start_check"
  /\ IF activeManager # NoManager
       THEN /\ \E c \in Contexts :
                 local' = [local EXCEPT ![t].tdMgr = activeManager, ![t].ctx = c]
            /\ pc' = [pc EXCEPT ![t] = "td_entry"]
       ELSE /\ pc' = [pc EXCEPT ![t] = "start_init"]
            /\ UNCHANGED local
  /\ UNCHANGED <<shared, lastOp>>
  /\ UNCHANGED <<emitterVars, builderVars>>

\* Start that gives up with the error of the previous manager's shutdown
StartClearKeepsError(t) ==
  /\ pc[t] = "start_clear"
  /\ activeManager' = NoManager
  /\ pc' = [pc EXCEPT ![t] = IF local[t].err = NoError THEN "start_init" ELSE "start_unlock"]
  /\ UNCHANGED <<mu, managers, nextId, hooks, errorHandler, life, tdLog, local, lastOp>>
  /\ UNCHANGED <<emitterVars, builderVars>>

\* if err := activeManager.shutdown(ctx); err != nil { logrus...Warn(...) }
\* activeManager = nil
\* The err of the if statement is logged and goes out of scope.
StartClear(t) ==
  /\ pc[t] = "start_clear"
  /\ activeManager' = NoManager
  /\ local' = [local EXCEPT ![t].err = NoError]
  /\ pc' = [pc EXCEPT ![t] = "start_init"]
  /\ UNCHANGED <<mu, managers, nextId, hooks, errorHandler, life, tdLog, lastOp>>
  /\ UNCHANGED <<emitterVars, builderVars>>

\* a manager that starts with a callback shutting an exporter down
NewManagerWithExporterShutdown(cfg) ==
  [logHook |-> NoHandle, metricsBridge |-> NoHandle, shutdownFuncs |-> <<1>>,
   config |-> cfg]

\* mgr := &manager{config: *config}; nothing is appended to shutdownFuncs:
\* both builders' shutdown functions are assigned to _
NewManager(cfg) ==
  [logHook |-> NoHandle, metricsBridge |-> NoHandle, shutdownFuncs |-> <<>>,
   config |-> cfg]

\* Start that registers the error handler only when an export is requested
StartInitHandlerWithExport(t) ==
  /\ pc[t] = "start_init"
  /\ \E el \in BOOLEAN, em \in BOOLEAN, resOk \in BOOLEAN :
       LET cfg == [local[t].cfg EXCEPT !.ExportLogs = el, !.ExportMetrics = em]
       IN /\ errorHandler' = (errorHandler \/ el \/ em)
          /\ managers' = managers @@ (nextId :> NewManager(cfg))
          /\ local' = [local EXCEPT ![t].mgr = nextId, ![t].cfg = cfg,
                                    ![t].resErr = ~resOk]
  /\ life' = life @@ (nextId :> NewLife("Start"))
  /\ nextId' = nextId + 1
  /\ pc' = [pc EXCEPT ![t] = "start_logs"]
  /\ UNCHANGED <<mu, activeManager, hooks, tdLog, lastOp>>
  /\ UNCHANGED <<emitterVars, builderVars>>

\* otelglobal.SetErrorHandler(...); mgr := &manager{...}; res, err := NewResource(...)
\* A NewResource error is logged and Start goes on.
StartInit(t) ==
  /\ pc[t] = "start_init"
  /\ errorHandler' = TRUE
  /\ \E el \in BOOLEAN, em \in BOOLEAN, resOk \in BOOLEAN :
       LET cfg == [local[t].cfg EXCEPT !.ExportLogs = el, !.ExportMetrics = em]
       IN /\ managers' = managers @@ (nextId :> NewManager(cfg))
          /\ local' = [local EXCEPT ![t].mgr = nextId, ![t].cfg = cfg,
                                    ![t].resErr = ~resOk]
  /\ life' = life @@ (nextId :> NewLife("Start"))
  /\ nextId' = nextId + 1
  /\ pc' = [pc EXCEPT ![t] = "start_logs"]
  /\ UNCHANGED <<mu, activeManager, hooks, tdLog, lastOp>>
  /\ UNCHANGED <<emitterVars, builderVars>>

\* if logger != nil { logger.AddHook(hook) } else { logrus.AddHook(hook) }
HookTarget(lg) == IF lg # "nil" THEN lg ELSE "std"

\* Start that returns the error of createLogExporter
StartLogsAborts(t) ==
  /\ pc[t] = "start_logs"
  /\ LET m == local[t].mgr IN
     IF local[t].cfg.ExportLogs
       THEN \E ok \in BOOLEAN, lg \in LoggerArgs :
              IF ok
                THEN /\ hooks' = [hooks EXCEPT ![HookTarget(lg)] = Append(@, m)]
                     /\ managers' = [managers EXCEPT ![m].logHook = m]
                     /\ local' = [local EXCEPT ![t].logger = lg]
                     /\ pc' = [pc EXCEPT ![t] = "start_metrics"]
                ELSE /\ local' = [local EXCEPT ![t].logErr = TRUE,
                          ![t].err = [kind |-> "Failed to create OTLP log exporter", errs |-> <<>>]]
                     /\ pc' = [pc EXCEPT ![t] = "start_unlock"]
                     /\ UNCHANGED <<hooks, managers>>
       ELSE /\ pc' = [pc EXCEPT ![t] = "start_metrics"]
            /\ UNCHANGED <<hooks, managers, local>>
  /\ UNCHANGED <<mu, activeManager, nextId, errorHandler, life, tdLog, lastOp>>
  /\ UNCHANGED <<emitterVars, builderVars>>

\* Start that adds its hook to the standard logger whatever logger it is given
StartLogsAlwaysStd(t) ==
  /\ pc[t] = "start_logs"
  /\ LET m == local[t].mgr IN
     IF local[t].cfg.ExportLogs
       THEN \E ok \in BOOLEAN, lg \in LoggerArgs :
              IF ok
                THEN /\ hooks' = [hooks EXCEPT !["std"] = Append(@, m)]
                     /\ managers' = [managers EXCEPT ![m].logHook = m]
                     /\ local' = [local EXCEPT ![t].logger = lg]
                ELSE /\ local' = [local EXCEPT ![t].logErr = TRUE]
                     /\ UNCHANGED <<hooks, managers>>
       ELSE UNCHANGED <<hooks, managers, local>>
  /\ pc' = [pc EXCEPT ![t] = "start_metrics"]
  /\ UNCHANGED <<mu, activeManager, nextId, errorHandler, life, tdLog, lastOp>>
  /\ UNCHANGED <<emitterVars, builderVars>>

\* if config.ExportLogs { createLogExporter; newOTELLogHookFromExporter; AddHook; mgr.logHook = hook }
\* A createLogExporter error is logged and the log hook left nil;
\* newOTELLogHookFromExporter never returns an error.
StartLogs(t) ==
  /\ pc[t] = "start_logs"
  /\ LET m == local[t].mgr IN
     IF local[t].cfg.ExportLogs
       THEN \E ok \in BOOLEAN, lg \in LoggerArgs :
              IF ok
                THEN /\ hooks' = [hooks EXCEPT ![HookTarget(lg)] = Append(@, m)]
                     /\ managers' = [managers EXCEPT ![m].logHook = m]
                     /\ local' = [local EXCEPT ![t].logger = lg]
                ELSE /\ local' = [local EXCEPT ![t].logErr = TRUE]
                     /\ UNCHANGED <<hooks, managers>>
       ELSE UNCHANGED <<hooks, managers, local>>
  /\ pc' = [pc EXCEPT ![t] = "start_metrics"]
  /\ UNCHANGED <<mu, activeManager, nextId, errorHandler, life, tdLog, lastOp>>
  /\ UNCHANGED <<emitterVars, builderVars>>

\* Start that builds the metrics bridge when ExportLogs is set
StartMetricsGatedByLogs(t) ==
  /\ pc[t] = "start_metrics"
  /\ LET m == local[t].mgr IN
     IF local[t].cfg.ExportLogs
       THEN \E ok \in BOOLEAN :
              IF ok
                THEN /\ managers' = [managers EXCEPT ![m].metricsBridge = m]
                     /\ UNCHANGED local
                ELSE /\ local' = [local EXCEPT ![t].readerErr = TRUE]
                     /\ UNCHANGED managers
       ELSE UNCHANGED <<managers, local>>
  /\ pc' = [pc EXCEPT ![t] = "start_install"]
  /\ UNCHANGED <<mu, activeManager, nextId, hooks, errorHandler, life, tdLog, lastOp>>
  /\ UNCHANGED <<emitterVars, builderVars>>

\* if config.ExportMetrics { createMetricReader; newMetricsBridgeFromReader; mgr.metricsBridge = bridge }
\* A createMetricReader error is logged and the bridge left nil;
\* newMetricsBridgeFromReader never returns an error.
StartMetrics(t) ==
  /\ pc[t] = "start_metrics"
  /\ LET m == local[t].mgr IN
     IF local[t].cfg.ExportMetrics
       THEN \E ok \in BOOLEAN :
              IF ok
                THEN /\ managers' = [managers EXCEPT ![m].metricsBridge = m]
                     /\ UNCHANGED local
                ELSE /\ local' = [local EXCEPT ![t].readerErr = TRUE]
                     /\ UNCHANGED managers
       ELSE UNCHANGED <<managers, local>>
  /\ pc' = [pc EXCEPT ![t] = "start_install"]
  /\ UNCHANGED <<mu, activeManager, nextId, hooks, errorHandler, life, tdLog, lastOp>>
  /\ UNCHANGED <<emitterVars, builderVars>>

\* activeManager = mgr
StartInstall(t) ==
  /\ pc[t] = "start_install"
  /\ activeManager' = local[t].mgr
  /\ life' = [life EXCEPT ![local[t].mgr].installed = TRUE]
  /\ pc' = [pc EXCEPT ![t] = "start_unlock"]
  /\ UNCHANGED <<mu, managers, nextId, hooks, errorHandler, tdLog, local, lastOp>>
  /\ UNCHANGED <<emitterVars, builderVars>>

\* return nil, then the deferred mu.Unlock()
StartReturn(t) ==
  /\ pc[t] = "start_unlock"
  /\ mu' = 0
  /\ lastOp' = [op |-> "Start", mgr |-> local[t].tdMgr, failed |-> FALSE, ctx |-> "live"]
  /\ managers' = Collected(managers, local[t].tdMgr, activeManager)
  /\ tdLog' = <<>>
  /\ local' = [local EXCEPT ![t] = NoLocal]
  /\ pc' = [pc EXCEPT ![t] = "idle"]
  /\ UNCHANGED <<activeManager, nextId, hooks, errorHandler, life>>
  /\ UNCHANGED <<emitterVars, builderVars>>

(* ----------------------------- accessors ------------------------------- *)
\* a goroutine calls GetMetricsBridge() or GetLogHook()
AccessorCall(t) ==
  /\ pc[t] = "idle"
  /\ \E op \in {"GetMetricsBridge", "GetLogHook"} :
       local' = [local EXCEPT ![t] = [NoLocal EXCEPT !.caller = op]]
  /\ pc' = [pc EXCEPT ![t] = "get_lock"]
  /\ UNCHANGED <<shared, lastOp>>
  /\ UNCHANGED <<emitterVars, builderVars>>

\* an accessor that does not wait for the mutex
AccessorLockNoWait(t) ==
  /\ pc[t] = "get_lock"
  /\ mu' = t
  /\ pc' = [pc EXCEPT ![t] = "get_read"]
  /\ UNCHANGED <<activeManager, managers, nextId, hooks, errorHandler, life, tdLog,
                 local, lastOp>>
  /\ UNCHANGED <<emitterVars, builderVars>>

\* mu.Lock()
AccessorLock(t) ==
  /\ pc[t] = "get_lock"
  /\ mu = 0
  /\ mu' = t
  /\ pc' = [pc EXCEPT ![t] = "get_read"]
  /\ UNCHANGED <<activeManager, managers, nextId, hooks, errorHandler, life, tdLog,
                 local, lastOp>>
  /\ UNCHANGED <<emitterVars, builderVars>>

\* GetMetricsBridge that hands out the log hook field
GetMetricsBridgeWrongField(t) ==
  /\ pc[t] = "get_read"
  /\ local[t].caller = "GetMetricsBridge"
  /\ local' = [local EXCEPT ![t].tdMgr = activeManager,
                            ![t].val = IF activeManager = NoManager THEN NoHandle
                                       ELSE managers[activeManager].logHook]
  /\ pc' = [pc EXCEPT ![t] = "get_unlock"]
  /\ UNCHANGED <<shared, lastOp>>
  /\ UNCHANGED <<emitterVars, builderVars>>

\* if activeManager == nil { return nil }; return activeManager.metricsBridge
GetMetricsBridge(t) ==
  /\ pc[t] = "get_read"
  /\ local[t].caller = "GetMetricsBridge"
  /\ local' = [local EXCEPT ![t].tdMgr = activeManager,
                            ![t].val = IF activeManager = NoManager THEN NoHandle
                                       ELSE managers[activeManager].metricsBridge]
  /\ pc' = [pc EXCEPT ![t] = "get_unlock"]
  /\ UNCHANGED <<shared, lastOp>>
  /\ UNCHANGED <<emitterVars, builderVars>>

\* if activeManager == nil { return nil }; return activeManager.logHook
GetLogHook(t) ==
  /\ pc[t] = "get_read"
  /\ local[t].caller = "GetLogHook"
  /\ local' = [local EXCEPT ![t].tdMgr = activeManager,
                            ![t].val = IF activeManager = NoManager THEN NoHandle
                                       ELSE managers[activeManager].logHook]
  /\ pc' = [pc EXCEPT ![t] = "get_unlock"]
  /\ UNCHANGED <<shared, lastOp>>
  /\ UNCHANGED <<emitterVars, builderVars>>

\* an accessor whose caller keeps the mutex as long as it holds the handle
AccessorUnlockKeepsLock(t) ==
  /\ pc[t] = "get_unlock"
  /\ pc' = [pc EXCEPT ![t] = "get_ret"]
  /\ UNCHANGED <<shared, local, lastOp>>
  /\ UNCHANGED <<emitterVars, builderVars>>

\* the deferred mu.Unlock() of an accessor: the result goes to the caller,
\* who holds the handle in val from here on
AccessorUnlock(t) ==
  /\ pc[t] = "get_unlock"
  /\ mu' = 0
  /\ pc' = [pc EXCEPT ![t] = "get_ret"]
  /\ UNCHANGED <<activeManager, managers, nextId, hooks, errorHandler, life, tdLog,
                 local, lastOp>>
  /\ UNCHANGED <<emitterVars, builderVars>>

\* the caller is done with the handle it was given
AccessorReturn(t) ==
  /\ pc[t] = "get_ret"
  /\ local' = [local EXCEPT ![t] = NoLocal]
  /\ pc' = [pc EXCEPT ![t] = "idle"]
  /\ UNCHANGED <<shared, lastOp>>
  /\ UNCHANGED <<emitterVars, builderVars>>

(* --------------------- package-internal test setup --------------------- *)
\* The tests of the package put a hand-built manager in the empty slot:
\*   mu.Lock(); activeManager = &manager{...}; mu.Unlock()
\* This is the only way a manager with shutdownFuncs comes to exist.  lastOp
\* keeps the outcome and the context of the operation before the install.
InstallTestManager ==
  /\ mu = 0
  /\ activeManager = NoManager
  /\ Budget
  /\ \E h \in BOOLEAN, b \in BOOLEAN, fns \in InjSeqs(FuncIds, MaxFuncs) :
       managers' = managers @@ (nextId :>
            [logHook |-> IF h THEN nextId ELSE NoHandle,
             metricsBridge |-> IF b THEN nextId ELSE NoHandle,
             shutdownFuncs |-> fns,
             config |-> [NoConfig EXCEPT !.Enabled = TRUE, !.Endpoint = "collector:4317"]])
  /\ life' = life @@ (nextId :> [NewLife("test") EXCEPT !.installed = TRUE])
  /\ activeManager' = nextId
  /\ nextId' = nextId + 1
  /\ lastOp' = [op |-> "install", mgr |-> NoManager, failed |-> lastOp.failed,
                ctx |-> lastOp.ctx]
  /\ UNCHANGED <<mu, hooks, errorHandler, tdLog, pc, local>>
  /\ UNCHANGED <<emitterVars, builderVars>>

\* The tests also call the method on a nil receiver: var m *manager; m.shutdown(ctx)
ManagerShutdownNil(t) ==
  /\ pc[t] = "idle"
  /\ local' = [local EXCEPT ![t] = [NoLocal EXCEPT !.caller = "direct"]]
  /\ pc' = [pc EXCEPT ![t] = "td_entry"]
  /\ UNCHANGED <<shared, lastOp>>
  /\ UNCHANGED <<emitterVars, builderVars>>

\* the test has the result of its direct call
DirectReturn(t) ==
  /\ pc[t] = "direct_ret"
  /\ local' = [local EXCEPT ![t] = NoLocal]
  /\ tdLog' = <<>>
  /\ pc' = [pc EXCEPT ![t] = "idle"]
  /\ UNCHANGED <<mu, activeManager, managers, nextId, hooks, errorHandler, life, lastOp>>
  /\ UNCHANGED <<emitterVars, builderVars>>

(* ------------------------- OTELLogHook.Fire ---------------------------- *)
\* logrus, or a test, calls h.Fire(entry)
FireCall(t) ==
  /\ hpc[t] = "idle"
  /\ \E e \in Entries :
       \E c \in IF e = "nil" THEN {PlainContent} ELSE logged :
         hlocal' = [hlocal EXCEPT ![t] = [NoFire EXCEPT !.op = "Fire", !.entry = e,
                                                        !.content = c]]
  /\ hpc' = [hpc EXCEPT ![t] = "fire_build"]
  /\ UNCHANGED <<logged, otelLogger, loggerProvider, context, contextMu, serial, managerVars, builderVars>>

\* Fire that takes the mutex of the manager while it builds its record
FireBuildUnderMu(t) ==
  /\ hpc[t] = "fire_build"
  /\ mu = 0
  /\ IF hlocal[t].entry = "nil"
       THEN /\ hlocal' = [hlocal EXCEPT ![t].panic = NilDereference]
            /\ hpc' = [hpc EXCEPT ![t] = "fire_defer"]
       ELSE /\ \E c \in EntryContexts :
                 hlocal' = [hlocal EXCEPT ![t].entryCtx = c,
                            ![t].ctx =
                              IF c = "nil" THEN "background" ELSE "entry",
                            ![t].hint = Cardinality(DOMAIN context)]
            /\ hpc' = [hpc EXCEPT ![t] = "fire_rlock"]
  /\ UNCHANGED <<logged, otelLogger, loggerProvider, context, contextMu, serial, managerVars, builderVars>>

\* ctx := entry.Context; if ctx == nil { ctx = context.Background() }; the
\* record's fields; attrs := make(..., len(entry.Data)+len(h.context)+...);
\* the loop over entry.Data.  entry.Context panics for a nil entry.
\* len(h.context) is read here, before h.contextMu.RLock(): hint is what the
\* read yields, the label summand of the capacity of attrs.  Concurrent with
\* an UpdateContext it is the size of the map before or after any of its
\* writes.
FireBuild(t) ==
  /\ hpc[t] = "fire_build"
  /\ IF hlocal[t].entry = "nil"
       THEN /\ hlocal' = [hlocal EXCEPT ![t].panic = NilDereference]
            /\ hpc' = [hpc EXCEPT ![t] = "fire_defer"]
       ELSE /\ \E c \in EntryContexts :
                 hlocal' = [hlocal EXCEPT ![t].entryCtx = c,
                            ![t].ctx =
                              IF c = "nil" THEN "background" ELSE "entry",
                            ![t].hint = Cardinality(DOMAIN context)]
            /\ hpc' = [hpc EXCEPT ![t] = "fire_rlock"]
  /\ UNCHANGED <<logged, otelLogger, loggerProvider, context, contextMu, serial, managerVars, builderVars>>

\* Fire that reads the label map without waiting for a writer to finish
FireRLockNoWait(t) ==
  /\ hpc[t] = "fire_rlock"
  /\ contextMu' = [contextMu EXCEPT !.readers = @ \cup {t}]
  /\ hpc' = [hpc EXCEPT ![t] = "fire_range"]
  /\ UNCHANGED <<logged, otelLogger, loggerProvider, context, serial, hlocal, managerVars, builderVars>>

\* h.contextMu.RLock()
FireRLock(t) ==
  /\ hpc[t] = "fire_rlock"
  /\ contextMu.writer = 0
  /\ contextMu' = [contextMu EXCEPT !.readers = @ \cup {t}]
  /\ hpc' = [hpc EXCEPT ![t] = "fire_range"]
  /\ UNCHANGED <<logged, otelLogger, loggerProvider, context, serial, hlocal, managerVars, builderVars>>

\* for k, v := range h.context { attrs = append(attrs, otellog.String(k, v)) }
\* append grows attrs as needed: its first capacity plays no part from here on
FireRange(t) ==
  /\ hpc[t] = "fire_range"
  /\ hlocal' = [hlocal EXCEPT ![t].attrs = context, ![t].hint = 0]
  /\ hpc' = [hpc EXCEPT ![t] = "fire_runlock"]
  /\ UNCHANGED <<logged, otelLogger, loggerProvider, context, contextMu, serial, managerVars, builderVars>>

\* Fire that goes on without h.contextMu.RUnlock()
FireRUnlockSkipped(t) ==
  /\ hpc[t] = "fire_runlock"
  /\ hpc' = [hpc EXCEPT ![t] = "fire_emit"]
  /\ UNCHANGED <<logged, otelLogger, loggerProvider, context, contextMu, serial, hlocal, managerVars, builderVars>>

\* h.contextMu.RUnlock()
FireRUnlock(t) ==
  /\ hpc[t] = "fire_runlock"
  /\ contextMu' = [contextMu EXCEPT !.readers = @ \ {t}]
  /\ hpc' = [hpc EXCEPT ![t] = "fire_emit"]
  /\ UNCHANGED <<logged, otelLogger, loggerProvider, context, serial, hlocal, managerVars, builderVars>>

\* Fire that always emits under the background context
FireEmitBackground(t) ==
  /\ hpc[t] = "fire_emit"
  /\ IF otelLogger = "nil"
       THEN hlocal' = [hlocal EXCEPT ![t].panic = NilDereference]
       ELSE \E rec \in Records(hlocal[t].content, hlocal[t].attrs) :
              hlocal' = [hlocal EXCEPT ![t].emitted = @ + 1, ![t].record = rec,
                                       ![t].emitCtx = "background"]
  /\ hpc' = [hpc EXCEPT ![t] = "fire_defer"]
  /\ UNCHANGED <<logged, otelLogger, loggerProvider, context, contextMu, serial, managerVars, builderVars>>

\* the caller and error attributes; record.AddAttributes(attrs...);
\* h.otelLogger.Emit(ctx, record); return nil.
\* The method call on a nil otelLogger panics.  emitCtx is the context Emit
\* is called with.
FireEmit(t) ==
  /\ hpc[t] = "fire_emit"
  /\ IF otelLogger = "nil"
       THEN hlocal' = [hlocal EXCEPT ![t].panic = NilDereference]
       ELSE \E rec \in Records(hlocal[t].content, hlocal[t].attrs) :
              hlocal' = [hlocal EXCEPT ![t].emitted = @ + 1, ![t].record = rec,
                                       ![t].emitCtx = hlocal[t].ctx]
  /\ hpc' = [hpc EXCEPT ![t] = "fire_defer"]
  /\ UNCHANGED <<logged, otelLogger, loggerProvider, context, contextMu, serial, managerVars, builderVars>>

\* a deferred function that empties the label map when it recovers
FireDeferredClearsLabels(t) ==
  /\ hpc[t] = "fire_defer"
  /\ hlocal' = [hlocal EXCEPT ![t].err =
                  IF hlocal[t].panic # NoPanic THEN PanicError(hlocal[t].panic)
                  ELSE NoError]
  /\ context' = IF hlocal[t].panic # NoPanic THEN EmptyMap ELSE context
  /\ hpc' = [hpc EXCEPT ![t] = "fire_ret"]
  /\ UNCHANGED <<logged, otelLogger, loggerProvider, contextMu, serial, managerVars, builderVars>>

\* a deferred function that recovers and leaves the result nil
FireDeferredSwallows(t) ==
  /\ hpc[t] = "fire_defer"
  /\ hlocal' = [hlocal EXCEPT ![t].err = NoError]
  /\ hpc' = [hpc EXCEPT ![t] = "fire_ret"]
  /\ UNCHANGED <<logged, otelLogger, loggerProvider, context, contextMu, serial, managerVars, builderVars>>

\* defer func() { if r := recover(); r != nil { retErr = fmt.Errorf(...) } }()
FireDeferred(t) ==
  /\ hpc[t] = "fire_defer"
  /\ hlocal' = [hlocal EXCEPT ![t].err =
                  IF hlocal[t].panic # NoPanic THEN PanicError(hlocal[t].panic)
                  ELSE NoError]
  /\ hpc' = [hpc EXCEPT ![t] = "fire_ret"]
  /\ UNCHANGED <<logged, otelLogger, loggerProvider, context, contextMu, serial, managerVars, builderVars>>

\* the caller has the result of Fire
FireReturn(t) ==
  /\ hpc[t] = "fire_ret"
  /\ hlocal' = [hlocal EXCEPT ![t] = NoFire]
  /\ hpc' = [hpc EXCEPT ![t] = "idle"]
  /\ UNCHANGED <<logged, otelLogger, loggerProvider, context, contextMu, serial, managerVars, builderVars>>

(* ---------------------- OTELLogHook.UpdateContext ---------------------- *)
\* a goroutine calls h.UpdateContext(ctxMap)
UpdateContextCall(t) ==
  /\ hpc[t] = "idle"
  /\ \E m \in LabelMaps :
       hlocal' = [hlocal EXCEPT ![t] = [NoFire EXCEPT !.op = "UpdateContext",
                                                      !.ctxMap = m]]
  /\ hpc' = [hpc EXCEPT ![t] = "uc_lock"]
  /\ UNCHANGED <<logged, otelLogger, loggerProvider, context, contextMu, serial, managerVars, builderVars>>

\* UpdateContext that does not wait for the lock
UpdateContextLockNoWait(t) ==
  /\ hpc[t] = "uc_lock"
  /\ contextMu' = [contextMu EXCEPT !.writer = t]
  /\ serial' = Override(serial, hlocal[t].ctxMap)
  /\ hlocal' = [hlocal EXCEPT ![t].old = context]
  /\ hpc' = [hpc EXCEPT ![t] = IF DOMAIN hlocal[t].ctxMap = {} THEN "uc_unlock"
                              ELSE "uc_range"]
  /\ UNCHANGED <<logged, otelLogger, loggerProvider, context, managerVars, builderVars>>

\* h.contextMu.Lock(); defer h.contextMu.Unlock()
UpdateContextLock(t) ==
  /\ hpc[t] = "uc_lock"
  /\ contextMu = Unlocked
  /\ contextMu' = [contextMu EXCEPT !.writer = t]
  /\ serial' = Override(serial, hlocal[t].ctxMap)
  /\ hlocal' = [hlocal EXCEPT ![t].old = context]
  /\ hpc' = [hpc EXCEPT ![t] = IF DOMAIN hlocal[t].ctxMap = {} THEN "uc_unlock"
                              ELSE "uc_range"]
  /\ UNCHANGED <<logged, otelLogger, loggerProvider, context, managerVars, builderVars>>

\* UpdateContext that replaces the label map by the pairs it is given
UpdateContextWriteReplaces(t) ==
  /\ hpc[t] = "uc_range"
  /\ \E key \in DOMAIN hlocal[t].ctxMap \ hlocal[t].done :
       LET done == hlocal[t].done \cup {key}
           kept == [k \in DOMAIN context \cap done |-> context[k]]
       IN /\ context' = MapSet(kept, key, hlocal[t].ctxMap[key])
          /\ hlocal' = [hlocal EXCEPT ![t].done = done]
          /\ hpc' = [hpc EXCEPT ![t] = IF done = DOMAIN hlocal[t].ctxMap
                                      THEN "uc_unlock" ELSE "uc_range"]
  /\ UNCHANGED <<logged, otelLogger, loggerProvider, contextMu, serial, managerVars, builderVars>>

\* one iteration of "for key, value := range ctxMap { h.context[key] = value }";
\* the order of a range over a map is not specified
UpdateContextWrite(t) ==
  /\ hpc[t] = "uc_range"
  /\ \E key \in DOMAIN hlocal[t].ctxMap \ hlocal[t].done :
       LET done == hlocal[t].done \cup {key}
       IN /\ context' = MapSet(context, key, hlocal[t].ctxMap[key])
          /\ hlocal' = [hlocal EXCEPT ![t].done = done]
          /\ hpc' = [hpc EXCEPT ![t] = IF done = DOMAIN hlocal[t].ctxMap
                                      THEN "uc_unlock" ELSE "uc_range"]
  /\ UNCHANGED <<logged, otelLogger, loggerProvider, contextMu, serial, managerVars, builderVars>>

\* the deferred h.contextMu.Unlock(); UpdateContext returns
UpdateContextReturn(t) ==
  /\ hpc[t] = "uc_unlock"
  /\ contextMu' = [contextMu EXCEPT !.writer = 0]
  /\ hlocal' = [hlocal EXCEPT ![t] = NoFire]
  /\ hpc' = [hpc EXCEPT ![t] = "idle"]
  /\ UNCHANGED <<logged, otelLogger, loggerProvider, context, serial, managerVars, builderVars>>

(* ------------------------- OTELLogHook.Close --------------------------- *)
\* a goroutine calls h.Close()
CloseCall(t) ==
  /\ hpc[t] = "idle"
  /\ hlocal' = [hlocal EXCEPT ![t] = [NoFire EXCEPT !.op = "Close"]]
  /\ hpc' = [hpc EXCEPT ![t] = "close_run"]
  /\ UNCHANGED <<logged, otelLogger, loggerProvider, context, contextMu, serial, managerVars, builderVars>>

\* Close that empties the label map
CloseClearsContext(t) ==
  /\ hpc[t] = "close_run"
  /\ context' = EmptyMap
  /\ loggerProvider' = IF loggerProvider = "nil" THEN "nil" ELSE "shutdown"
  /\ hlocal' = [hlocal EXCEPT ![t].ctx = "background+15s"]
  /\ hpc' = [hpc EXCEPT ![t] = "close_ret"]
  /\ UNCHANGED <<logged, otelLogger, contextMu, serial, managerVars, builderVars>>

\* ctx, cancel := context.WithTimeout(context.Background(), logHookCloseTimeout)
\* defer cancel(); return h.loggerProvider.Shutdown(ctx)
\* The call on a nil provider panics and Close recovers nothing; a provider
\* shuts down, and reports an error when its flush fails or times out.
Close(t) ==
  /\ hpc[t] = "close_run"
  /\ IF loggerProvider = "nil"
       THEN /\ hlocal' = [hlocal EXCEPT ![t].ctx = "background+15s",
                                        ![t].panic = NilDereference]
            /\ UNCHANGED loggerProvider
       ELSE /\ loggerProvider' = "shutdown"
            /\ \E ok \in BOOLEAN :
                 hlocal' = [hlocal EXCEPT ![t].ctx = "background+15s",
                              ![t].err = IF ok THEN NoError
                                         ELSE [kind |-> "provider shutdown", errs |-> <<>>]]
  /\ hpc' = [hpc EXCEPT ![t] = "close_ret"]
  /\ UNCHANGED <<logged, otelLogger, context, contextMu, serial, managerVars, builderVars>>

\* the caller has the result of Close, or its panic
CloseReturn(t) ==
  /\ hpc[t] = "close_ret"
  /\ hlocal' = [hlocal EXCEPT ![t] = NoFire]
  /\ hpc' = [hpc EXCEPT ![t] = "idle"]
  /\ UNCHANGED <<logged, otelLogger, loggerProvider, context, contextMu, serial, managerVars, builderVars>>

(* --------------------------- specifications ---------------------------- *)
\* the steps of the package API
Api(t) ==
  \/ StartEnter(t) \/ StartEarlyReturn(t) \/ StartLock(t) \/ StartCheckPrev(t)
  \/ StartClear(t) \/ StartInit(t) \/ StartLogs(t) \/ StartMetrics(t)
  \/ StartInstall(t) \/ StartReturn(t)
  \/ ShutdownCall(t) \/ ShutdownLock(t) \/ ShutdownCheck(t)
  \/ ShutdownClear(t) \/ ShutdownReturn(t)
  \/ TdEntry(t) \/ TdLogHook(t) \/ TdMetricsBridge(t) \/ TdResult(t) \/ TdReturn(t)
  \/ AccessorCall(t) \/ AccessorLock(t) \/ GetMetricsBridge(t) \/ GetLogHook(t)
  \/ AccessorUnlock(t) \/ AccessorReturn(t)

Next == \E t \in Threads : Api(t)

Spec == Init /\ [][Next]_vars

\* a goroutine calls into the package
Call(t) == StartEnter(t) \/ ShutdownCall(t) \/ AccessorCall(t)

\* mu.Lock(): the goroutine blocks until the mutex is free
Acquire(t) == StartLock(t) \/ ShutdownLock(t) \/ AccessorLock(t)

\* every other step of a call in progress
Run(t) == Api(t) /\ ~Call(t) /\ ~Acquire(t)

\* The scheduler runs every goroutine that can run, every component call
\* terminates, and sync.Mutex hands the mutex to a goroutine that keeps
\* waiting for it (starvation mode). No goroutine is obliged to call.
FairSpec ==
  /\ Spec
  /\ \A t \in Threads : WF_vars(Run(t)) /\ SF_vars(Acquire(t))

TestNext ==
  \/ InstallTestManager
  \/ \E t \in TestThreads :
       \/ Api(t)
       \/ TdShutdownFunc(t)
       \/ ManagerShutdownNil(t)
       \/ DirectReturn(t)

TestSpec == Init /\ [][TestNext]_vars

\* the steps of the methods of one log hook
Hook(t) ==
  \/ FireCall(t) \/ FireBuild(t) \/ FireRLock(t) \/ FireRange(t) \/ FireRUnlock(t)
  \/ FireEmit(t) \/ FireDeferred(t) \/ FireReturn(t)
  \/ UpdateContextCall(t) \/ UpdateContextLock(t) \/ UpdateContextWrite(t)
  \/ UpdateContextReturn(t)
  \/ CloseCall(t) \/ Close(t) \/ CloseReturn(t)

HookNext == \E t \in Threads : Hook(t)

\* a hook built by newOTELLogHookFromExporter, or by hand without a logger
HookInit ==
  ManagerInit /\ BuilderIdle /\ \E lg \in LoggerFields : EmitterInit(lg, {PlainContent})

\* goroutines calling Fire and UpdateContext on one hook
HookSpec == HookInit /\ [][HookNext]_vars

\* the positions of Start and manager.shutdown, inside the critical section,
\* next to a logrus call: lines 267 and 372, 269, 274, 291 and 298, 318 and
\* 327, 341, 347
LogPcs == {"td_entry", "td_log", "start_clear", "start_init", "start_logs",
           "start_metrics", "start_install", "start_unlock"}

\* logrus.Info(...) and the like inside Start or manager.shutdown: the standard
\* logger calls Fire of its hooks in the goroutine that logs, which holds mu
LogLine(t) ==
  /\ mu = t
  /\ pc[t] \in LogPcs
  /\ hooks["std"] # <<>>
  /\ FireCall(t)

\* the steps of a Fire call in progress
InFire(t) ==
  \/ FireBuild(t) \/ FireRLock(t) \/ FireRange(t) \/ FireRUnlock(t)
  \/ FireEmit(t) \/ FireDeferred(t) \/ FireReturn(t)

\* the steps of Fire and UpdateContext
Labels(t) ==
  \/ FireCall(t) \/ InFire(t)
  \/ UpdateContextCall(t) \/ UpdateContextLock(t) \/ UpdateContextWrite(t)
  \/ UpdateContextReturn(t)

\* One goroutine calls the package API and builds one manager; its log lines
\* run Fire of a hook on the standard logger before the call goes on. The
\* others call Fire and UpdateContext of that hook.
MixedNext ==
  \/ \E t \in TestThreads :
       hpc[t] = "idle" /\ Api(t) /\ (pc'[t] = "start_lock" => life = <<>>)
  \/ \E t \in TestThreads : LogLine(t) \/ InFire(t)
  \/ \E t \in Threads \ TestThreads : Labels(t)

MixedSpec == Init /\ [][MixedNext]_vars

\* one goroutine sets labels and fires entries of every level, with and
\* without fields, error field and caller, on a hook with a logger
RecordInit == ManagerInit /\ EmitterInit("sdk", Contents) /\ BuilderIdle

RecordNext == \E t \in TestThreads : Labels(t)

RecordSpec == RecordInit /\ [][RecordNext]_vars

\* The tests of the builders: each takes a Config (and a version) and calls
\* the builders and NewResource on it.
BuilderInit ==
  /\ ManagerInit /\ EmitterInit("sdk", {PlainContent})
  /\ config \in BuilderConfigs
  /\ version \in Versions
  /\ built = NothingBuilt

BuilderNext == CreateLogExporterCall \/ CreateMetricReaderCall \/ NewResourceCall

BuilderSpec == BuilderInit /\ [][BuilderNext]_vars

(* ------------------------- vocabulary of the claims -------------------- *)
TdPcs == {"td_entry", "td_log", "td_metrics", "td_funcs", "td_ret"}
StartBuildPcs == {"start_init", "start_logs", "start_metrics", "start_install"}

\* the goroutine is between mu.Lock() and the deferred mu.Unlock()
InCriticalSection(t) ==
  \/ pc[t] \in {"start_check", "start_clear", "start_unlock",
                "sd_check", "sd_clear", "sd_unlock", "get_read", "get_unlock"}
  \/ pc[t] \in StartBuildPcs
  \/ pc[t] \in TdPcs /\ local[t].caller \in {"Start", "Shutdown"}

\* the goroutine is in Start or Shutdown, running or past manager.shutdown
\* on the manager it found in the slot
InTeardown(t) ==
  /\ local[t].caller \in {"Start", "Shutdown"}
  /\ local[t].tdMgr # NoManager
  /\ pc[t] \notin {"sd_check", "start_check", "td_entry"}

\* ... and that manager.shutdown call has built its result
TeardownDone(t) ==
  InTeardown(t) /\ pc[t] \notin {"td_log", "td_metrics", "td_funcs"}

\* a manager that was put in the slot and whose teardown has not completed
Active(m) == life[m].installed /\ life[m].teardowns = 0

Count(S) == Cardinality(S)
Present(h) == IF h # NoHandle THEN 1 ELSE 0
Range(f) == {f[i] : i \in DOMAIN f}

\* every component of the manager was shut down once, by one completed teardown
FullyTornDown(m) ==
  /\ life[m].teardowns = 1
  /\ m \in DOMAIN managers =>
       /\ life[m].closes = Present(managers[m].logHook)
       /\ life[m].bridgeDowns = Present(managers[m].metricsBridge)
       /\ life[m].funcRuns = Len(managers[m].shutdownFuncs)

StepRank(e) == CASE e.step = "log" -> 1 [] e.step = "metrics" -> 2 [] OTHER -> 3
PosIn(fns, fn) == CHOOSE i \in DOMAIN fns : fns[i] = fn

LabelOf(step) ==
  CASE step = "log" -> "log hook shutdown"
    [] step = "metrics" -> "metrics bridge shutdown"
    [] OTHER -> "exporter shutdown"

FailedSteps(log) == SelectSeq(log, LAMBDA e : ~e.ok)

\* the result the steps of a teardown call for
ExpectedResult(log) ==
  LET F == FailedSteps(log)
  IN IF F = <<>> THEN NoError
     ELSE [kind |-> "OTEL shutdown errors",
           errs |-> [i \in 1..Len(F) |->
                       [label |-> LabelOf(F[i].step), step |-> F[i].step, fn |-> F[i].fn]]]

(* ------------------------------- claims -------------------------------- *)
\* C1: at any instant at most one Manager is active: the slot holds no manager
\* or one allocated manager, at most one manager installed by Start has not
\* been torn down, and that one is the manager in the slot.
C1_AtMostOneActive ==
  /\ activeManager \in {NoManager} \cup DOMAIN life
  /\ Cardinality({m \in DOMAIN life : life[m].origin = "Start" /\ Active(m)}) <= 1
  /\ \A m \in DOMAIN life : life[m].origin = "Start" /\ Active(m) => activeManager = m

\* a second manager installed by Start is active, the first one torn down,
\* while another goroutine waits for the mutex
C1_Witness ==
  /\ activeManager = 2
  /\ life[1].origin = "Start" /\ life[1].teardowns = 1 /\ Active(2)
  /\ \E t, u \in Threads : pc[t] = "start_unlock" /\ pc[u] \in {"start_lock", "sd_lock", "get_lock"}

\* C2: while a replacing Start constructs and installs the new Manager, every
\* manager that was in the slot before has been torn down completely (log hook
\* closed, metrics bridge shut down, every callback run) and the slot is empty
\* until the new Manager is installed.
C2_TeardownBeforeConstruct ==
  \A t \in Threads :
    pc[t] \in StartBuildPcs \cup {"start_unlock"} =>
      /\ \A m \in DOMAIN life :
           m # local[t].mgr /\ life[m].installed => FullyTornDown(m)
      /\ pc[t] \in StartBuildPcs => activeManager = NoManager

\* a replacing Start builds its log hook after closing the hook and the
\* bridge of the manager it found
C2_Witness ==
  \E t \in Threads :
    /\ pc[t] = "start_metrics"
    /\ local[t].tdMgr # NoManager
    /\ managers[local[t].tdMgr].logHook # NoHandle
    /\ managers[local[t].tdMgr].metricsBridge # NoHandle
    /\ managers[local[t].mgr].logHook # NoHandle

\* C3: the critical sections of Start, Shutdown and the accessors never
\* overlap, the goroutine inside holds mu, and while a replacing Start has
\* emptied the slot and not yet installed the new manager no other goroutine
\* reads the slot.
C3_Serialized ==
  /\ \A t, u \in Threads : t # u => ~(InCriticalSection(t) /\ InCriticalSection(u))
  /\ \A t \in Threads : InCriticalSection(t) => mu = t
  /\ \A t \in Threads :
       pc[t] \in StartBuildPcs /\ local[t].tdMgr # NoManager =>
         \A u \in Threads \ {t} :
           pc[u] \notin {"sd_check", "start_check", "get_read", "get_unlock"}

\* a replacing Start is between clearing and installing while an accessor
\* waits for the mutex
C3_Witness ==
  \E t, u \in Threads :
    /\ pc[t] = "start_logs" /\ local[t].tdMgr # NoManager /\ activeManager = NoManager
    /\ pc[u] = "get_lock"

\* C4: the steps of one teardown are invoked in the order log hook, metrics
\* bridge, callbacks, and the callbacks in the order of shutdownFuncs.
C4_TeardownOrder ==
  \A t \in Threads :
    InTeardown(t) =>
      LET fns == managers[local[t].tdMgr].shutdownFuncs
      IN \A i, j \in DOMAIN tdLog :
           i < j =>
             \/ StepRank(tdLog[i]) < StepRank(tdLog[j])
             \/ /\ tdLog[i].step = "aux" /\ tdLog[j].step = "aux"
                /\ PosIn(fns, tdLog[i].fn) < PosIn(fns, tdLog[j].fn)

\* a teardown of a manager with a log hook, a bridge and two callbacks
\* registered as <<2, 1>> has run all four steps
C4_Witness ==
  \E t \in Threads :
    /\ pc[t] = "td_ret" /\ InTeardown(t)
    /\ managers[local[t].tdMgr].shutdownFuncs = <<2, 1>>
    /\ Len(tdLog) = 4

\* C5: when a teardown has built its result, every present step has been
\* invoked exactly once and no absent step at all, whichever steps failed.
C5_EveryStepOnce ==
  \A t \in Threads :
    TeardownDone(t) =>
      LET m == managers[local[t].tdMgr]
      IN /\ Count({i \in DOMAIN tdLog : tdLog[i].step = "log"}) = Present(m.logHook)
         /\ Count({i \in DOMAIN tdLog : tdLog[i].step = "metrics"}) = Present(m.metricsBridge)
         /\ \A fn \in FuncIds :
              Count({i \in DOMAIN tdLog : tdLog[i].step = "aux" /\ tdLog[i].fn = fn})
                = IF fn \in Range(m.shutdownFuncs) THEN 1 ELSE 0

\* the metrics shutdown and the first callback failed and the second
\* callback still ran
C5_Witness ==
  \E t \in Threads :
    /\ pc[t] = "td_ret" /\ InTeardown(t)
    /\ Len(tdLog) = 3
    /\ tdLog[1].step = "metrics" /\ ~tdLog[1].ok
    /\ tdLog[2].step = "aux" /\ ~tdLog[2].ok
    /\ tdLog[3].step = "aux"

\* C6: manager.shutdown returns nil exactly when no step failed (also for a
\* manager without components and for a nil manager), and otherwise the one
\* error that lists the failure of every failed step in teardown order, a
\* callback's failure labelled "exporter shutdown".
C6_AggregateResult ==
  \A t \in Threads :
    pc[t] = "td_ret" =>
      /\ local[t].err = ExpectedResult(tdLog)
      /\ (local[t].err = NoError) <=> (\A i \in DOMAIN tdLog : tdLog[i].ok)
      /\ local[t].tdMgr = NoManager => local[t].err = NoError

\* the log hook and a callback failed, the bridge did not: two errors are
\* reported
C6_Witness ==
  \E t \in Threads :
    /\ pc[t] = "td_ret"
    /\ Len(tdLog) = 3
    /\ ~tdLog[1].ok /\ tdLog[2].ok /\ ~tdLog[3].ok /\ tdLog[3].step = "aux"
    /\ Len(local[t].err.errs) = 2

\* C7: when Shutdown returns the slot is empty, whether the teardown
\* succeeded or failed.
C7_ShutdownClearsSlot ==
  \A t \in Threads : pc[t] = "sd_unlock" => activeManager = NoManager

\* Shutdown returns the error of a failed teardown
C7_Witness ==
  \E t \in Threads :
    pc[t] = "sd_unlock" /\ local[t].tdMgr # NoManager /\ local[t].err # NoError

\* C8: a Shutdown that found the slot empty returns nil, has invoked no
\* teardown step of any component and leaves the slot empty.
C8_ShutdownOnEmpty ==
  \A t \in Threads :
    pc[t] = "sd_unlock" /\ local[t].tdMgr = NoManager =>
      /\ local[t].err = NoError
      /\ life = local[t].snap
      /\ tdLog = <<>>
      /\ activeManager = NoManager

\* Shutdown returns from an empty slot although managers have existed
C8_Witness ==
  \E t \in Threads :
    pc[t] = "sd_unlock" /\ local[t].tdMgr = NoManager /\ DOMAIN life # {}

\* C9: a Shutdown that follows a Shutdown which tore a manager down, with no
\* Start in between, finds the slot empty, returns nil and invokes no teardown
\* step, also when the first one returned an error; the first one returns the
\* aggregate of the failures of its one teardown.
C9_SecondShutdownNoOp ==
  \A t \in Threads :
    local[t].caller = "Shutdown" /\ pc[t] \notin {"sd_lock", "sd_check"} =>
      /\ lastOp.op = "Shutdown" /\ lastOp.mgr # NoManager =>
           /\ pc[t] = "sd_unlock"
           /\ local[t].tdMgr = NoManager
           /\ local[t].err = NoError
           /\ life = local[t].snap
           /\ life[lastOp.mgr].teardowns = 1
      /\ pc[t] = "sd_unlock" /\ local[t].tdMgr # NoManager =>
           /\ local[t].err = ExpectedResult(tdLog)
           /\ life[local[t].tdMgr].teardowns = 1

\* the second Shutdown returns after a first one that reported an error
C9_Witness ==
  \E t \in Threads :
    /\ pc[t] = "sd_unlock"
    /\ lastOp.op = "Shutdown" /\ lastOp.mgr # NoManager /\ lastOp.failed

C11_NoEndpointAllocatesNothing ==
  [][\A t \in Threads :
       /\ (pc[t] = "idle" /\ local'[t].caller = "Start"
             /\ local'[t].cfg.Enabled /\ local'[t].cfg.Endpoint = "") =>
            /\ pc'[t] = "start_ret"
            /\ local'[t].err = ConfigError
            /\ UNCHANGED shared
       /\ (pc[t] = "start_ret" /\ local[t].cfg.Enabled /\ pc'[t] # pc[t]) =>
            /\ local[t].err = ConfigError
            /\ pc'[t] = "idle"
            /\ UNCHANGED shared]_vars

\* an enabled Start without endpoint returns its error while a manager built
\* by an earlier Start is active and the error handler of that Start is set
C11_Witness ==
  \E t \in Threads :
    /\ pc[t] = "start_ret" /\ local[t].cfg.Enabled /\ local[t].cfg.Endpoint = ""
    /\ local[t].err = ConfigError
    /\ activeManager # NoManager /\ Active(activeManager)
    /\ life[activeManager].origin = "Start"

(* ------------------------------- C12 ---------------------------------- *)
\* the Start call of t has built its manager after a failure of NewResource,
\* createLogExporter or createMetricReader and is about to return
BuiltDespiteFailure(t) ==
  /\ pc[t] = "start_unlock"
  /\ local[t].resErr \/ local[t].logErr \/ local[t].readerErr

\* C12: when building the resource, the log exporter or the metric reader
\* failed, Start still returns nil and its manager is installed; the handle of
\* the failed sub-feature is absent and the other sub-feature, when asked
\* for and not itself failed, is constructed.
C12_ConstructionFailureTolerated ==
  \A t \in Threads :
    BuiltDespiteFailure(t) =>
      LET m == local[t].mgr
      IN /\ local[t].err = NoError
         /\ m # NoManager /\ activeManager = m /\ life[m].installed
         /\ local[t].logErr => managers[m].logHook = NoHandle
         /\ local[t].readerErr => managers[m].metricsBridge = NoHandle
         /\ (local[t].cfg.ExportMetrics /\ ~local[t].readerErr) =>
              managers[m].metricsBridge # NoHandle
         /\ (local[t].cfg.ExportLogs /\ ~local[t].logErr) =>
              managers[m].logHook # NoHandle

\* the log exporter failed, the resource too, and the metrics bridge was built
C12_Witness ==
  \E t \in Threads :
    /\ BuiltDespiteFailure(t)
    /\ local[t].logErr /\ local[t].resErr /\ ~local[t].readerErr
    /\ activeManager = local[t].mgr
    /\ managers[activeManager].logHook = NoHandle
    /\ managers[activeManager].metricsBridge # NoHandle

(* ------------------------------- C13 ---------------------------------- *)
\* the Start call of t tore down a previous manager and that teardown
\* reported an error
ReplacedWithError(t) ==
  /\ local[t].caller = "Start"
  /\ TeardownDone(t)
  /\ pc[t] # "td_ret"
  /\ FailedSteps(tdLog) # <<>>

\* C13: when the teardown of the previous manager reports an error inside a
\* replacing Start, the old manager is taken out of the slot, a new manager is
\* constructed and installed, and Start returns nil.
C13_ReplaceDespiteTeardownError ==
  \A t \in Threads :
    ReplacedWithError(t) =>
      /\ pc[t] \in {"start_clear"} \cup StartBuildPcs \cup {"start_unlock"}
      /\ pc[t] \in StartBuildPcs => activeManager = NoManager
      /\ pc[t] \in StartBuildPcs \ {"start_init"} =>
           local[t].mgr \in DOMAIN managers /\ local[t].mgr # local[t].tdMgr
      /\ pc[t] = "start_unlock" =>
           /\ local[t].err = NoError
           /\ local[t].mgr # NoManager /\ local[t].mgr # local[t].tdMgr
           /\ activeManager = local[t].mgr
           /\ life[local[t].mgr].installed
           /\ life[local[t].tdMgr].teardowns = 1

\* a replacing Start is about to return after the log hook of the previous
\* manager failed to close
C13_Witness ==
  \E t \in Threads :
    /\ ReplacedWithError(t) /\ pc[t] = "start_unlock"
    /\ \E i \in DOMAIN tdLog : tdLog[i].step = "log" /\ ~tdLog[i].ok
    /\ activeManager = local[t].mgr /\ local[t].err = NoError

(* ------------------------------- C14 ---------------------------------- *)
\* C14: in the manager Start installs, the log hook is present exactly when
\* ExportLogs is set and the log exporter was constructed, the metrics bridge
\* exactly when ExportMetrics is set and the metric reader was constructed;
\* neither flag bears on the other handle, and with both flags false the
\* manager is installed with neither handle.
C14_FlagsSelectComponents ==
  \A t \in Threads :
    pc[t] = "start_unlock" =>
      LET m == local[t].mgr
          cfg == local[t].cfg
      IN /\ activeManager = m /\ life[m].installed
         /\ managers[m].config = cfg
         /\ managers[m].logHook # NoHandle <=> (cfg.ExportLogs /\ ~local[t].logErr)
         /\ managers[m].metricsBridge # NoHandle <=>
              (cfg.ExportMetrics /\ ~local[t].readerErr)
         /\ ~cfg.ExportLogs => ~local[t].logErr
         /\ ~cfg.ExportMetrics => ~local[t].readerErr
         /\ (~cfg.ExportLogs /\ ~cfg.ExportMetrics) =>
              managers[m].logHook = NoHandle /\ managers[m].metricsBridge = NoHandle

\* Start installed a manager with a log hook and no metrics bridge for a
\* configuration with ExportLogs only
C14_Witness ==
  \E t \in Threads :
    /\ pc[t] = "start_unlock"
    /\ local[t].cfg.ExportLogs /\ ~local[t].cfg.ExportMetrics
    /\ activeManager = local[t].mgr
    /\ managers[activeManager].logHook # NoHandle
    /\ managers[activeManager].metricsBridge = NoHandle

(* ------------------------------- C15 ---------------------------------- *)
Accessors == {"GetMetricsBridge", "GetLogHook"}

\* the field of the manager in the slot an accessor is to return
SlotField(op) ==
  IF activeManager = NoManager THEN NoHandle
  ELSE IF op = "GetMetricsBridge" THEN managers[activeManager].metricsBridge
  ELSE managers[activeManager].logHook

\* C15: GetMetricsBridge and GetLogHook return the corresponding field of the
\* manager in the slot, nil when the slot is empty or the field is nil, and no
\* step of an accessor changes the slot, a manager, a component, the hooks or
\* the error handler, however many goroutines call them at once.
C15_AccessorsReadOnly ==
  /\ [](\A t \in Threads :
          (pc[t] = "get_unlock") => local[t].val = SlotField(local[t].caller))
  /\ [][\A t \in Threads :
          (pc'[t] # pc[t] /\ (local[t].caller \in Accessors
                                \/ local'[t].caller \in Accessors)) =>
            UNCHANGED <<activeManager, managers, nextId, hooks, errorHandler,
                        life, tdLog, lastOp>>]_vars

\* GetMetricsBridge returns nil for a manager that has a log hook only, while
\* another accessor call waits for the mutex
C15_Witness ==
  \E t, u \in Threads :
    /\ pc[t] = "get_unlock" /\ local[t].caller = "GetMetricsBridge"
    /\ activeManager # NoManager
    /\ managers[activeManager].logHook # NoHandle
    /\ managers[activeManager].metricsBridge = NoHandle
    /\ local[t].val = NoHandle
    /\ u # t /\ pc[u] = "get_lock"

(* ------------------------------- C16 ---------------------------------- *)
\* C16: under fair scheduling with terminating component calls, every Start,
\* Shutdown and accessor call in progress eventually returns, whatever the
\* other goroutines do, and a goroutine that has returned does not hold the
\* mutex: the mutex is released on every return path.
C16_CallsReturn ==
  /\ \A t \in Threads : (pc[t] # "idle") ~> (pc[t] = "idle")
  /\ [](\A t \in Threads : pc[t] = "idle" => mu # t)
  /\ []((\A t \in Threads : pc[t] = "idle") => mu = 0)

\* a Shutdown call waits for the mutex while a Start call holds it during the
\* teardown of the previous manager
C16_Witness ==
  \E t, u \in Threads :
    /\ pc[t] = "sd_lock"
    /\ u # t /\ mu = u /\ local[u].caller = "Start" /\ pc[u] = "td_log"

(* ------------------------------- C17 ---------------------------------- *)
\* a runtime fault occurs in the body of the Fire call of t
Faults(t) == hlocal[t].entry = "nil" \/ otelLogger = "nil"

\* C17: Fire never passes a runtime fault on to its caller. A fault in its
\* body (a nil entry, a nil logger) is recovered: the call reaches its return
\* with an error carrying the marker "otel log hook panic" and the recovered
\* value, and has emitted nothing; a call without fault returns nil, having
\* emitted its record.
C17_FireRecovers ==
  \A t \in Threads :
    /\ (hlocal[t].op = "Fire" /\ hlocal[t].panic # NoPanic) =>
         hpc[t] \in {"fire_defer", "fire_ret"}
    /\ hpc[t] = "fire_ret" =>
         /\ Faults(t) <=> hlocal[t].panic # NoPanic
         /\ Faults(t) =>
              /\ hlocal[t].err # NoError
              /\ hlocal[t].err.kind = "otel log hook panic"
              /\ hlocal[t].err.errs = <<hlocal[t].panic>>
              /\ hlocal[t].emitted = 0
         /\ ~Faults(t) => hlocal[t].err = NoError /\ hlocal[t].emitted = 1

\* on a hook with a logger, one Fire returns the panic error for a nil entry
\* and another returns nil
C17_Witness ==
  \E t, u \in Threads :
    /\ otelLogger = "sdk"
    /\ hpc[t] = "fire_ret" /\ hlocal[t].entry = "nil"
    /\ hlocal[t].err = PanicError(NilDereference)
    /\ hpc[u] = "fire_ret" /\ hlocal[u].err = NoError /\ hlocal[u].emitted = 1

(* ------------------------------- C18 ---------------------------------- *)
\* the goroutines between RLock and RUnlock, and between Lock and Unlock
ReadSection == {"fire_range", "fire_runlock"}
WriteSection == {"uc_range", "uc_unlock"}

\* C18: on a hook whose logger is nil every Fire call, alone or next to
\* others, returns an error, and a Fire that returns holds the lock of the
\* label map in no mode: the lock is only ever held by calls that are inside
\* their locked section, so no later Fire or UpdateContext waits for a Fire
\* that has faulted.
C18_FaultedFireHoldsNoLock ==
  /\ \A t \in Threads :
       (otelLogger = "nil" /\ hpc[t] \in {"fire_defer", "fire_ret"}) =>
         /\ hlocal[t].panic # NoPanic
         /\ hpc[t] = "fire_ret" => hlocal[t].err # NoError
         /\ t \notin contextMu.readers /\ contextMu.writer # t
  /\ \A t \in contextMu.readers : hpc[t] \in ReadSection
  /\ contextMu.writer # 0 => hpc[contextMu.writer] \in WriteSection

\* a Fire on a hook without logger returns its error after reading the label
\* map, while an UpdateContext holds the write lock
C18_Witness ==
  \E t, u \in Threads :
    /\ otelLogger = "nil"
    /\ hpc[t] = "fire_ret" /\ hlocal[t].entry = "entry" /\ hlocal[t].err # NoError
    /\ u # t /\ contextMu.writer = u /\ hpc[u] = "uc_range"

(* ------------------------------- C19 ---------------------------------- *)
\* C19: when UpdateContext(m) is about to unlock, the label map is the map it
\* found overridden by m: every key of m has m's value, every other key has
\* the value it had, and no key is gone.
C19_MergeUpsert ==
  \A t \in Threads :
    hpc[t] = "uc_unlock" =>
      LET m == hlocal[t].ctxMap
          old == hlocal[t].old
      IN /\ context = Override(old, m)
         /\ DOMAIN context = DOMAIN old \cup DOMAIN m
         /\ \A k \in DOMAIN m : context[k] = m[k]
         /\ \A k \in DOMAIN old \ DOMAIN m : context[k] = old[k]

\* an UpdateContext has overwritten one of two labels and kept the other
C19_Witness ==
  \E t \in Threads :
    /\ hpc[t] = "uc_unlock"
    /\ DOMAIN hlocal[t].old = {1, 2} /\ DOMAIN hlocal[t].ctxMap = {1}
    /\ hlocal[t].old[1] # hlocal[t].ctxMap[1]
    /\ context[1] = hlocal[t].ctxMap[1] /\ context[2] = hlocal[t].old[2]

(* ------------------------------- C20 ---------------------------------- *)
\* C20: whenever no UpdateContext is part-way through its writes, the label
\* map equals the result of applying the UpdateContext calls made so far one
\* after the other, in the order in which they took the write lock.
C20_Serializable ==
  (contextMu.writer = 0 \/ hpc[contextMu.writer] = "uc_unlock") =>
    context = serial

\* one UpdateContext has written both labels while a concurrent call that
\* writes other values for them waits for the lock
C20_Witness ==
  \E t, u \in Threads :
    /\ hpc[t] = "uc_unlock" /\ contextMu.writer = t
    /\ DOMAIN hlocal[t].ctxMap = {1, 2}
    /\ u # t /\ hpc[u] = "uc_lock" /\ DOMAIN hlocal[u].ctxMap = {1, 2}
    /\ hlocal[u].ctxMap[1] # hlocal[t].ctxMap[1]
    /\ hlocal[t].old # EmptyMap
    /\ context = hlocal[t].ctxMap

(* ------------------------------- C21 ---------------------------------- *)
\* C21: the labels a Fire call has collected for its record are the label map
\* as it stood between two whole UpdateContext calls: while the call is
\* between RLock and RUnlock no UpdateContext is between Lock and Unlock, and
\* the labels read are the result of the whole UpdateContext calls made so
\* far, with all pairs of each of them or none of a call still to come.
C21_SnapshotBetweenCalls ==
  \A t \in Threads :
    /\ hpc[t] \in ReadSection =>
         /\ contextMu.writer = 0
         /\ \A u \in Threads : hpc[u] \notin WriteSection
    /\ hpc[t] = "fire_runlock" =>
         /\ hlocal[t].attrs = serial
         /\ hlocal[t].attrs = context

\* a Fire has read both labels while an UpdateContext that is to overwrite
\* both of them waits for the lock
C21_Witness ==
  \E t, u \in Threads :
    /\ hpc[t] = "fire_runlock" /\ DOMAIN hlocal[t].attrs = {1, 2}
    /\ u # t /\ hpc[u] = "uc_lock" /\ DOMAIN hlocal[u].ctxMap = {1, 2}
    /\ \A k \in {1, 2} : hlocal[u].ctxMap[k] # hlocal[t].attrs[k]

(* ------------------------------- C22 ---------------------------------- *)
\* C22: no step of Fire, UpdateContext or Close removes a key from the label
\* map: a key of the map is a key of the map after every step, also once the
\* hook has been closed.
C22_KeysNeverShrink ==
  [][DOMAIN context \subseteq DOMAIN context']_vars

\* a Close of the hook has shut its provider down and both labels set before
\* it are in the map
C22_Witness ==
  \E t \in Threads :
    /\ hpc[t] = "close_ret" /\ loggerProvider = "shutdown"
    /\ DOMAIN context = {1, 2}

(* ------------------------------- C23 ---------------------------------- *)
\* the goroutine t, inside Fire or UpdateContext, can take its next step, or
\* waits for the lock of the label map held by a goroutine that can
HookCanRun(t) ==
  \/ ENABLED Labels(t)
  \/ /\ hpc[t] \in {"fire_rlock", "uc_lock"}
     /\ \E u \in Threads \ {t} :
          /\ u = contextMu.writer \/ u \in contextMu.readers
          /\ ENABLED Labels(u)

\* C23: no step of Fire or UpdateContext takes, releases or waits for the
\* mutex of the manager: every such step leaves the state of the manager as it
\* is, and a call in progress can always go on whoever holds the mutex, also
\* when the caller itself holds it because Start or manager.shutdown logs a
\* line through the hooked logger.
C23_HookIndependentOfMutex ==
  /\ [][\A t \in Threads : hpc'[t] # hpc[t] => UNCHANGED managerVars]_vars
  /\ [](\A t \in Threads : hpc[t] # "idle" => HookCanRun(t))

\* a log line of Start has been through Fire while Start holds the mutex, and
\* an UpdateContext of another goroutine has done its writes meanwhile
C23_Witness ==
  \E t, u \in Threads :
    /\ mu = t /\ pc[t] \in StartBuildPcs
    /\ hpc[t] = "fire_ret" /\ hlocal[t].err = NoError
    /\ u # t /\ hpc[u] = "uc_unlock" /\ hlocal[u].ctxMap # EmptyMap

(* ------------------------------- C24 ---------------------------------- *)
\* the seven levels of logrus, from trace to panic
DefinedLevels ==
  <<TraceLevel, DebugLevel, InfoLevel, WarnLevel, ErrorLevel, FatalLevel, PanicLevel>>

\* C24: the severity mapper gives the seven levels, from trace to panic,
\* strictly increasing severities, panic the highest of the fatal class and
\* not that of fatal, and gives every other value of the level type the
\* severity of info; the record of every Fire carries that severity.
C24_SeverityMapperTotal ==
  /\ \A i, j \in DOMAIN DefinedLevels :
       i < j => mapLogrusLevel(DefinedLevels[i]) < mapLogrusLevel(DefinedLevels[j])
  /\ mapLogrusLevel(PanicLevel) = SeverityFatal4
  /\ mapLogrusLevel(FatalLevel) = SeverityFatal
  /\ SeverityFatal < SeverityFatal4
  /\ \A l \in LevelValues \ Range(DefinedLevels) : mapLogrusLevel(l) = SeverityInfo
  /\ \A l \in LevelValues : mapLogrusLevel(l) \in SeverityTrace..SeverityFatal4
  /\ \A t \in Threads :
       hlocal[t].emitted = 1 =>
         /\ hlocal[t].record.severity = mapLogrusLevel(hlocal[t].content.level)
         /\ hlocal[t].panic = NoPanic

\* a Fire has emitted a record of the highest fatal severity for a panic
\* entry ...
C24_Witness ==
  \E t \in Threads :
    /\ hpc[t] = "fire_ret" /\ hlocal[t].emitted = 1
    /\ hlocal[t].content.level = PanicLevel
    /\ hlocal[t].record.severity = SeverityFatal4
    /\ hlocal[t].err = NoError

(* ------------------ Shutdown with a cancelled context ------------------ *)
\* the goroutine is in Shutdown, past manager.shutdown on the manager it
\* found in the slot
ShutdownTornDown(t) ==
  /\ local[t].caller = "Shutdown"
  /\ local[t].tdMgr # NoManager
  /\ pc[t] \in {"sd_clear", "sd_unlock"}

\* ... called with a live context on a manager that was installed right
\* after a Shutdown with a cancelled context had returned an error
FollowsCanceled(t) ==
  /\ ShutdownTornDown(t)
  /\ local[t].ctx = "live"
  /\ lastOp.op = "install" /\ lastOp.failed /\ lastOp.ctx = "canceled"

\* C25 as stated: the Shutdown of a freshly installed manager with a live
\* context that follows a Shutdown with a cancelled context returns no error.
C25_FollowingShutdownNeverFails ==
  \A t \in Threads :
    FollowsCanceled(t) /\ pc[t] = "sd_unlock" => local[t].err = NoError

\* C25: a Shutdown called with an already cancelled context still invokes
\* every teardown step of the manager once, returns an error whenever a step
\* failed, and clears the slot; the Shutdown of a freshly installed manager
\* with a live context that follows it clears the slot too and returns no
\* error unless one of its own steps fails.
C25_CanceledShutdownCompletes ==
  \A t \in Threads :
    ShutdownTornDown(t) =>
      LET m == managers[local[t].tdMgr]
      IN /\ local[t].ctx = "canceled" =>
              /\ Count({i \in DOMAIN tdLog : tdLog[i].step = "log"}) = Present(m.logHook)
              /\ Count({i \in DOMAIN tdLog : tdLog[i].step = "metrics"})
                   = Present(m.metricsBridge)
              /\ \A fn \in FuncIds :
                   Count({i \in DOMAIN tdLog : tdLog[i].step = "aux" /\ tdLog[i].fn = fn})
                     = IF fn \in Range(m.shutdownFuncs) THEN 1 ELSE 0
              /\ FailedSteps(tdLog) # <<>> => local[t].err # NoError
              /\ pc[t] = "sd_unlock" => activeManager = NoManager
         /\ FollowsCanceled(t) =>
              /\ local[t].err = NoError <=> FailedSteps(tdLog) = <<>>
              /\ pc[t] = "sd_unlock" => activeManager = NoManager

\* the Shutdown after the failed cancelled one ran its callback with the live
\* context and is about to return nil with the slot cleared
C25_Witness ==
  \E t \in Threads :
    /\ FollowsCanceled(t) /\ pc[t] = "sd_unlock"
    /\ \E i \in DOMAIN tdLog : tdLog[i].step = "aux" /\ tdLog[i].ctx = "live"
    /\ local[t].err = NoError
    /\ activeManager = NoManager

\* C26: while Shutdown runs the teardown with an already cancelled context,
\* every flush/close call made so far (the close of the log hook, the shutdown
\* of the metrics bridge, each auxiliary callback) was given the caller's
\* context.  OTELLogHook.Close takes no context and shuts the logger
\* provider down under a fresh background context with its own timeout, so
\* this fails as soon as the log hook of the manager has been closed.
C26_StepsGetCallerContext ==
  \A t \in Threads :
    (InTeardown(t) /\ local[t].caller = "Shutdown" /\ local[t].ctx = "canceled") =>
      \A i \in DOMAIN tdLog : tdLog[i].ctx = local[t].ctx

(* -------------------- accesses and the two locks ----------------------- *)
\* the steps of goroutine t that read or write the singleton slot
SlotAccess(t) ==
  \/ ShutdownCheck(t) \/ ShutdownClear(t)
  \/ StartCheckPrev(t) \/ StartClear(t) \/ StartInstall(t)
  \/ GetMetricsBridge(t) \/ GetLogHook(t)

\* the steps of goroutine t that read the label map of the hook: the
\* len(h.context) of Fire and its loop over the map
ContextRead(t) ==
  \/ FireBuild(t) /\ hlocal[t].entry # "nil"
  \/ FireRange(t)

\* C27: every step that reads or writes the singleton slot is taken by the
\* goroutine that holds mu, every step that reads the label map by a
\* goroutine that holds contextMu for reading, and every step that writes it
\* by the goroutine that holds contextMu for writing.  Fire reads
\* len(h.context) before it takes the read lock, so this fails at the first
\* Fire of a non-nil entry.
C27_NoAccessOutsideLock ==
  [][\A t \in Threads :
       /\ SlotAccess(t) => mu = t
       /\ ContextRead(t) => t \in contextMu.readers
       /\ UpdateContextWrite(t) => contextMu.writer = t]_vars

(* ------------------- diagnostics during a teardown --------------------- *)
\* goroutine t is inside manager.shutdown at a point where a log entry is or
\* may be produced: the logrus.Infoln at its entry, the shutdown of the
\* metrics bridge or a callback still to run (their own logging, and the
\* logrus.Errorf of the error handler Start registered)
ProducesDiagnostics(t) ==
  /\ local[t].tdMgr # NoManager
  /\ LET m == managers[local[t].tdMgr]
     IN \/ pc[t] \in {"td_entry", "td_log"}
        \/ pc[t] = "td_metrics" /\ m.metricsBridge # NoHandle
        \/ pc[t] = "td_funcs" /\ local[t].idx <= Len(m.shutdownFuncs)

\* C28: wherever a Shutdown produces a diagnostic log entry, the shutdown of
\* the metrics bridge and of the callbacks included, the log hook of the
\* manager it tears down has not been closed.  manager.shutdown closes the
\* log hook as its first step, so this fails as soon as the metrics bridge or
\* a callback of a manager with a log hook is shut down.
C28_DiagnosticsCaptured ==
  \A t \in Threads :
    (/\ local[t].caller = "Shutdown"
     /\ ProducesDiagnostics(t)
     /\ managers[local[t].tdMgr].logHook # NoHandle) =>
      life[local[t].tdMgr].closes = 0

(* ------------------------- the error handler --------------------------- *)
\* C29: once a Start with Enabled=true and a non-empty endpoint is about to
\* return or has returned, the process-wide error handler is registered,
\* whether or not a log hook or a metrics bridge was built, and it stays
\* registered.
C29_ErrorHandlerRegistered ==
  /\ \A t \in Threads :
       (/\ local[t].caller = "Start"
        /\ Proceeds(local[t].cfg.Enabled, local[t].cfg.Endpoint)
        /\ pc[t] = "start_unlock") => errorHandler
  /\ (\E m \in DOMAIN life : life[m].origin = "Start" /\ life[m].installed) => errorHandler

\* a Start that built neither a log hook nor a metrics bridge has returned
\* and the handler is registered
C29_Witness ==
  /\ lastOp.op = "Start"
  /\ \A t \in Threads : pc[t] = "idle"
  /\ activeManager # NoManager
  /\ managers[activeManager].logHook = NoHandle
  /\ managers[activeManager].metricsBridge = NoHandle
  /\ errorHandler

(* ------------------------- the emitted record -------------------------- *)
\* the entry holds an error value under logrus.ErrorKey
HasError(data) == ErrorKey \in DOMAIN data /\ data[ErrorKey] = "error"

Indicator(b) == IF b THEN 1 ELSE 0

\* C30: the record Fire hands to Emit has the entry's message as body and the
\* severity the mapper gives the entry's level; its attributes are, in this
\* order, one per field of the entry, one per label of the snapshot with the
\* label's value, the three caller attributes exactly when the entry has a
\* caller, and one exception-message attribute exactly when the error key
\* holds an error value: |fields| + |labels| + 3*[caller] + 1*[error] in all.
C30_RecordContents ==
  \A t \in Threads :
    (hlocal[t].op = "Fire" /\ hlocal[t].emitted = 1) =>
      LET r == hlocal[t].record
          c == hlocal[t].content
          labels == hlocal[t].attrs
          nf == Cardinality(DOMAIN c.data)
          nl == Cardinality(DOMAIN labels)
          nc == 3 * Indicator(c.caller)
          ne == Indicator(HasError(c.data))
      IN /\ r.body = c.message
         /\ r.severity = mapLogrusLevel(c.level)
         /\ Len(r.attrs) = nf + nl + nc + ne
         /\ \A i \in 1..nf : r.attrs[i].src = "field"
         /\ {r.attrs[i].name : i \in 1..nf} = DOMAIN c.data
         /\ \A i \in (nf + 1)..(nf + nl) :
              /\ r.attrs[i].src = "label"
              /\ r.attrs[i].label \in DOMAIN labels
              /\ r.attrs[i].val = labels[r.attrs[i].label]
         /\ {r.attrs[i].label : i \in (nf + 1)..(nf + nl)} = DOMAIN labels
         /\ c.caller =>
              /\ r.attrs[nf + nl + 1] = Attr("caller", "code.filepath", 0, 0)
              /\ r.attrs[nf + nl + 2] = Attr("caller", "code.function", 0, 0)
              /\ r.attrs[nf + nl + 3] = Attr("caller", "code.lineno", 0, 0)
         /\ HasError(c.data) =>
              r.attrs[nf + nl + nc + 1] = Attr("exception", "exception.message", 0, 0)

\* a record of eight attributes: two fields, one of them an error under the
\* error key, two labels, the caller and the exception message
C30_Witness ==
  \E t \in Threads :
    /\ hlocal[t].op = "Fire" /\ hlocal[t].emitted = 1
    /\ DOMAIN hlocal[t].content.data = DataKeys
    /\ HasError(hlocal[t].content.data)
    /\ hlocal[t].content.caller
    /\ Cardinality(DOMAIN hlocal[t].attrs) = 2
    /\ Len(hlocal[t].record.attrs) = 8

(* --------------------- Fire on an initialised hook --------------------- *)
\* C31: on a hook whose logger is initialised, a Fire of a non-nil entry of
\* any level returns nil having emitted exactly one record, under the
\* background context when the entry carries none and under the entry's own
\* context otherwise.
C31_FireEmitsOnce ==
  \A t \in Threads :
    (/\ hlocal[t].op = "Fire" /\ hlocal[t].entry # "nil"
     /\ otelLogger # "nil"
     /\ hpc[t] = "fire_ret") =>
      /\ hlocal[t].err = NoError
      /\ hlocal[t].emitted = 1
      /\ hlocal[t].content.level \in LevelValues
      /\ hlocal[t].emitCtx = IF hlocal[t].entryCtx = "nil" THEN "background" ELSE "entry"

\* a panic-level entry that carries a context has been emitted under it
C31_Witness ==
  \E t \in Threads :
    /\ hlocal[t].op = "Fire" /\ hpc[t] = "fire_ret"
    /\ hlocal[t].content.level = PanicLevel
    /\ hlocal[t].entryCtx = "set" /\ hlocal[t].emitCtx = "entry"
    /\ hlocal[t].emitted = 1 /\ hlocal[t].err = NoError

(* ------------------------- the exporter builders ----------------------- *)
\* HTTP exactly for Protocol "http", gRPC for every other value
Selected(cfg) == IF cfg.Protocol = "http" THEN "http" ELSE "grpc"

\* C32: createLogExporter and createMetricReader build over HTTP if and only
\* if Protocol is "http" and over gRPC for every other value; no value of
\* Protocol is rejected (each builder succeeds when the constructor of the
\* library does, and an error it returns is that constructor's), and whatever
\* the two builders return for one Config is over the same transport.
C32_TransportByProtocol ==
  /\ createLogExporter(config, TRUE).kind = "exporter"
  /\ createMetricReader(config, TRUE).kind = "reader"
  /\ built.exporter # NotBuilt =>
       /\ built.exporter.transport = Selected(config)
       /\ built.exporter.transport = "http" <=> config.Protocol = "http"
  /\ built.reader # NotBuilt =>
       /\ built.reader.transport = Selected(config)
       /\ built.reader.transport = "http" <=> config.Protocol = "http"
  /\ (built.exporter # NotBuilt /\ built.reader # NotBuilt) =>
       built.exporter.transport = built.reader.transport

\* both builders have built over gRPC for a Protocol that is neither "grpc"
\* nor "http"
C32_Witness ==
  /\ config.Protocol = "tcp"
  /\ built.exporter.kind = "exporter" /\ built.exporter.transport = "grpc"
  /\ built.reader.kind = "reader" /\ built.reader.transport = "grpc"

(* ------------------------------ NewResource ---------------------------- *)
\* the keys of a list of attributes
AttrKeys(attrs) == {attrs[i].key : i \in DOMAIN attrs}

\* a list of attributes holds this key with this value
Holds(attrs, k, v) == \E i \in DOMAIN attrs : attrs[i] = KeyValue(k, v)

\* C33: the attributes NewResource supplies hold service.name with the
\* Config's ServiceName, also when that is empty; service.version, with the
\* version argument, exactly when that argument is non-empty, whatever the
\* Config's ServiceVersion is; deployment.environment, with the Config's
\* Environment, exactly when that is non-empty; each at most once and
\* nothing else.
C33_ResourceAttributes ==
  built.resource # NotBuilt =>
    LET attrs == built.resource.attrs
    IN /\ "service.name" \in AttrKeys(attrs)
       /\ Holds(attrs, "service.name", config.ServiceName)
       /\ "service.version" \in AttrKeys(attrs) <=> version # ""
       /\ version # "" => Holds(attrs, "service.version", version)
       /\ "deployment.environment" \in AttrKeys(attrs) <=> config.Environment # ""
       /\ config.Environment # "" =>
            Holds(attrs, "deployment.environment", config.Environment)
       /\ AttrKeys(attrs) \subseteq {"service.name", "service.version",
                                     "deployment.environment"}
       /\ Len(attrs) = Cardinality(AttrKeys(attrs))

\* a Config with an empty ServiceName and a ServiceVersion, and no version
\* argument: service.name alone
C33_Witness ==
  /\ built.resource # NotBuilt
  /\ config.ServiceName = "" /\ config.ServiceVersion # "" /\ version = ""
  /\ config.Environment = ""
  /\ built.resource.attrs = <<KeyValue("service.name", "")>>

(* ----------------------- hooks and their loggers ----------------------- *)
\* how often logger l has hook h registered
Registrations(l, h) == Cardinality({i \in DOMAIN hooks[l] : hooks[l][i] = h})

\* C34: a log hook a Start has built is registered exactly once: on the
\* logger passed to that Start when one was passed, on the standard logger
\* otherwise, and on no other logger.  It is the hook stored in the manager
\* the Start installs, and the one GetLogHook returns for that manager.  A
\* Start that builds no log hook registers none.
C34_HookRegisteredOnce ==
  /\ \A t \in Threads :
       (local[t].caller = "Start"
          /\ pc[t] \in {"start_metrics", "start_install", "start_unlock"}) =>
         LET m == local[t].mgr
             h == managers[m].logHook
         IN /\ h # NoHandle =>
                 /\ h = m
                 /\ Registrations(HookTarget(local[t].logger), h) = 1
                 /\ \A l \in Loggers \ {HookTarget(local[t].logger)} :
                      Registrations(l, h) = 0
            /\ h = NoHandle => \A l \in Loggers : Registrations(l, m) = 0
            /\ pc[t] = "start_unlock" => activeManager = m
  /\ \A m \in DOMAIN managers :
       (life[m].origin = "Start" /\ managers[m].logHook # NoHandle) =>
         \E l \in Loggers :
           /\ Registrations(l, managers[m].logHook) = 1
           /\ \A k \in Loggers \ {l} : Registrations(k, managers[m].logHook) = 0
  /\ \A t \in Threads :
       (local[t].caller = "GetLogHook" /\ pc[t] = "get_unlock"
          /\ local[t].val # NoHandle) =>
         /\ local[t].val = managers[activeManager].logHook
         /\ \E l \in Loggers : Registrations(l, local[t].val) = 1

\* GetLogHook returns the hook a Start registered on the logger it was given
C34_Witness ==
  \E t \in Threads :
    /\ local[t].caller = "GetLogHook" /\ pc[t] = "get_unlock"
    /\ local[t].val # NoHandle
    /\ Registrations("custom", local[t].val) = 1
    /\ Registrations("std", local[t].val) = 0

\* a sequence is an initial part of another
IsPrefix(s, r) == Len(s) <= Len(r) /\ \A i \in DOMAIN s : s[i] = r[i]

\* the hooks registered on any logger
Registered == UNION {{hooks[l][i] : i \in DOMAIN hooks[l]} : l \in Loggers}

\* every registered hook was built by a Start and is registered once, on one
\* logger; at most one registered hook has not been closed; a closed hook
\* is still registered
HooksKept ==
  /\ \A h \in Registered :
       /\ life[h].origin = "Start"
       /\ \E l \in Loggers :
            /\ Registrations(l, h) = 1
            /\ \A other \in Loggers \ {l} : Registrations(other, h) = 0
  /\ Cardinality({h \in Registered : life[h].closes = 0}) <= 1
  /\ \A m \in DOMAIN life :
       (life[m].origin = "Start" /\ life[m].closes > 0) => m \in Registered

\* C35: no step removes a hook from the logger it was registered on: the
\* list of every logger only gets longer at its end.  Every hook is
\* registered at most once, so k Starts that built a log hook on one logger
\* leave k hooks there; at most one registered hook has not been closed; and
\* a hook that has been closed by a Shutdown or a replacing Start is still
\* registered, so its logger goes on passing entries to it.
C35_HooksOnlyGrow ==
  /\ [][\A l \in Loggers : IsPrefix(hooks[l], hooks'[l])]_vars
  /\ []HooksKept

\* two Starts built a hook on the standard logger: both are registered, the
\* first closed by the second Start, and a Shutdown has closed the second
C35_Witness ==
  /\ Len(hooks["std"]) = 2
  /\ life[hooks["std"][1]].closes = 1
  /\ life[hooks["std"][2]].closes = 1
  /\ lastOp.op = "Shutdown"
  /\ activeManager = NoManager

(* ------------------- the callbacks of a built manager ------------------ *)
\* C36: a manager built by Start has no auxiliary callback: neither builder's
\* shutdown function is kept.  Its teardown runs no callback step, so an
\* exporter is shut down only by the close of the log hook or the shutdown of
\* the metrics bridge, each once.
C36_NoCallbacksFromStart ==
  /\ \A m \in DOMAIN managers :
       life[m].origin = "Start" => managers[m].shutdownFuncs = <<>>
  /\ \A m \in DOMAIN life :
       life[m].origin = "Start" =>
         /\ life[m].funcRuns = 0
         /\ life[m].closes <= 1 /\ life[m].bridgeDowns <= 1
  /\ \A t \in Threads :
       (InTeardown(t) /\ life[local[t].tdMgr].origin = "Start") =>
         \A i \in DOMAIN tdLog : tdLog[i].step # "aux"

\* the teardown of a manager Start built with a log hook and a metrics
\* bridge has run its two steps and is over
C36_Witness ==
  \E t \in Threads :
    /\ TeardownDone(t) /\ life[local[t].tdMgr].origin = "Start"
    /\ pc[t] = "td_ret"
    /\ Len(tdLog) = 2
    /\ life[local[t].tdMgr].closes = 1 /\ life[local[t].tdMgr].bridgeDowns = 1

(* --------------------- one teardown per installed manager -------------- *)
\* no manager is torn down twice, only installed managers are torn down, a
\* manager is in the slot while it is torn down, and an installed manager
\* that is no longer in the slot has been torn down
TornDownOnce ==
  /\ \A m \in DOMAIN life :
       /\ life[m].teardowns <= 1
       /\ life[m].closes <= 1 /\ life[m].bridgeDowns <= 1
       /\ life[m].teardowns = 1 => life[m].installed
       /\ (life[m].installed /\ activeManager # m) =>
            life[m].teardowns = 1 /\ FullyTornDown(m)
  /\ \A t \in Threads :
       (local[t].caller \in {"Start", "Shutdown"} /\ local[t].tdMgr # NoManager
          /\ pc[t] \in TdPcs) =>
         activeManager = local[t].tdMgr /\ mu = t

\* C37: in every interleaving of Start and Shutdown calls, a manager leaves
\* the slot only after its one teardown has completed, by the Shutdown or the
\* replacing Start that ran it: no installed manager is dropped without a
\* teardown and none is torn down twice.
C37_TornDownExactlyOnce ==
  /\ []TornDownOnce
  /\ [][(activeManager # NoManager /\ activeManager' # activeManager) =>
          /\ activeManager' = NoManager
          /\ life[activeManager].teardowns = 1
          /\ life'[activeManager].teardowns = 1]_vars

\* two managers were installed; a replacing Start tore the first down, a
\* Shutdown the second, while the other goroutine is in a call of its own
C37_Witness ==
  /\ DOMAIN life = {1, 2}
  /\ life[1].installed /\ life[1].teardowns = 1
  /\ life[2].installed /\ life[2].teardowns = 1
  /\ activeManager = NoManager
  /\ lastOp.op = "Shutdown" /\ lastOp.mgr = 2
  /\ \E t \in Threads : pc[t] \in {"start_lock", "sd_lock"}

(* ------------------- handles given out by the accessors ---------------- *)
\* how often the component an accessor hands out has been shut down
HandleDowns(op, m) == IF op = "GetLogHook" THEN life[m].closes ELSE life[m].bridgeDowns

\* C38: when GetLogHook or GetMetricsBridge returns a handle that is not nil
\* it is the component of the manager in the slot, and neither that manager
\* nor the component has been torn down or is being torn down.  Once the
\* accessor has returned, its caller holds the handle without the mutex, so
\* a Shutdown or a replacing Start is free to tear the component down.
C38_HandleLiveAtReturn ==
  \A t \in Threads :
    (local[t].caller \in Accessors /\ local[t].val # NoHandle) =>
      /\ pc[t] = "get_unlock" =>
           /\ activeManager # NoManager /\ activeManager = local[t].tdMgr
           /\ local[t].val = SlotField(local[t].caller)
           /\ life[activeManager].teardowns = 0
           /\ HandleDowns(local[t].caller, activeManager) = 0
           /\ \A u \in Threads : ~(pc[u] \in TdPcs /\ local[u].tdMgr = activeManager)
      /\ pc[t] = "get_ret" => mu # t

\* the caller of GetLogHook still holds the hook that a Shutdown has closed
\* since
C38_Witness ==
  \E t \in Threads :
    /\ local[t].caller = "GetLogHook" /\ pc[t] = "get_ret"
    /\ local[t].val # NoHandle
    /\ life[local[t].tdMgr].closes = 1 /\ life[local[t].tdMgr].teardowns = 1
    /\ activeManager = NoManager
    /\ lastOp.op = "Shutdown"

(* -------------------- the early returns of Start ----------------------- *)
\* goroutine t is in a Start that does not get past the two early returns
EarlyStart(t) ==
  /\ local[t].caller = "Start"
  /\ ~Proceeds(local[t].cfg.Enabled, local[t].cfg.Endpoint)

\* C39: a Start with Enabled=false, or with Enabled=true and an empty
\* endpoint, goes straight to its return: it never holds or waits for the
\* mutex, no step of it touches the mutex, and it can return whoever holds
\* the mutex at that time.
C39_EarlyReturnWithoutMutex ==
  /\ [](\A t \in Threads :
          EarlyStart(t) =>
            /\ pc[t] = "start_ret"
            /\ mu # t
            /\ ENABLED StartEarlyReturn(t))
  /\ [][\A t \in Threads :
          (pc'[t] # pc[t] /\ (EarlyStart(t) \/ EarlyStart(t)')) => mu' = mu]_vars

\* a Start with no endpoint is about to return its error while the other
\* goroutine holds the mutex inside the teardown of a Shutdown
C39_Witness ==
  \E t, u \in Threads :
    /\ EarlyStart(t) /\ pc[t] = "start_ret"
    /\ local[t].cfg.Enabled /\ local[t].err = ConfigError
    /\ mu = u /\ local[u].caller = "Shutdown" /\ pc[u] = "td_metrics"

(* ------------------------ the frame of Fire ---------------------------- *)
\* C40: no step of Fire, on the path that emits or on the path that returns
\* the fault error, changes the label map, the logger or the logger provider
\* of its hook, and Fire holds no lock of the hook when it returns: the hook
\* is after the call what it was before it.
C40_FireChangesNothing ==
  /\ [][\A t \in Threads :
          (hpc'[t] # hpc[t] /\ (hlocal[t].op = "Fire" \/ hlocal'[t].op = "Fire")) =>
            UNCHANGED <<context, otelLogger, loggerProvider, serial, logged>>]_vars
  /\ [](\A t \in Threads :
          (hlocal[t].op = "Fire" /\ hpc[t] = "fire_ret") =>
            t \notin contextMu.readers /\ contextMu.writer # t)

\* a Fire on a hook without a logger returns the fault error and the two
\* labels of the hook are in place
C40_Witness ==
  \E t \in Threads :
    /\ hlocal[t].op = "Fire" /\ hpc[t] = "fire_ret"
    /\ hlocal[t].entry # "nil" /\ hlocal[t].err # NoError
    /\ otelLogger = "nil"
    /\ Cardinality(DOMAIN context) = 2
    /\ hlocal[t].attrs = context

====
